---- MODULE Spec2Model ----
(***************************************************************************)
(* Model of the model-invocation layer of the Stock Sentiment Engine:      *)
(* analysis/llm.py, analyze() and _parse_json_response().                  *)
(*                                                                         *)
(* A response text is a sequence of tokens.  Every token stands for a run  *)
(* of characters of the real text: "FENCE" is the triple-backtick fence    *)
(* marker, "json" the language tag, " " a run of whitespace, "text" a run  *)
(* of prose without braces, "k" and "_parse_error" a quoted object key     *)
(* with its colon, "1" and "true" JSON scalars, and "{" "}" "[" "]" ","    *)
(* the structural characters of JSON.                                      *)
(***************************************************************************)
EXTENDS Integers, Sequences, FiniteSets, TLC

\* ---------------------------------------------------------------- config.py
LLM_MAX_RETRIES == 3

LLM_RETRY_BASE_SECONDS == 1

\* ------------------------------------------------- tokens of a response text
\* Besides the tokens named below a text holds prose ("text"), brackets, braces
\* and commas, the double quote that opens and closes a string value ("QUOTE")
\* and a run of opening brackets longer than the recursion limit of the
\* interpreter ("DEEP").
Ws == " "

Fence == "FENCE"

LangTag == "json"

Keys == {"k", "_parse_error"}

Atoms == {"1", "true"}

\* ------------------------------------------------------------ str helpers
RECURSIVE SkipWs(_, _)
\* index of the first token at or after i that is not whitespace
SkipWs(s, i) ==
    IF i <= Len(s) /\ s[i] = Ws THEN SkipWs(s, i + 1) ELSE i

RECURSIVE RStrip(_)
RStrip(s) ==
    IF Len(s) > 0 /\ s[Len(s)] = Ws THEN RStrip(SubSeq(s, 1, Len(s) - 1)) ELSE s

\* str.strip()
Strip(s) == RStrip(SubSeq(s, SkipWs(s, 1), Len(s)))

\* str.find(tok): the first index holding tok, 0 when there is none
Find(s, tok) ==
    IF \E i \in 1..Len(s) : s[i] = tok
    THEN CHOOSE i \in 1..Len(s) : s[i] = tok /\ \A j \in 1..(i - 1) : s[j] # tok
    ELSE 0

\* the text without the whitespace tokens that stand outside string values
Compact(s) ==
    LET f[i \in 0..Len(s)] ==
            IF i = 0 THEN <<>>
            ELSE IF s[i] = Ws /\ Cardinality({ j \in 1..i : s[j] = "QUOTE" }) % 2 = 0
                 THEN f[i - 1]
                 ELSE Append(f[i - 1], s[i])
    IN  f[Len(s)]

\* ------------------------------------------------------------ json.loads
\* Each parser returns the index just after what it parsed, 0 on a syntax error
\* (JSONDecodeError) and -1 when the nesting exceeds the recursion limit
\* (RecursionError). A key is one token, its quotes and colon included, so
\* inside a string value the quote of a key token closes the string and the
\* rest of the token is a syntax error.
RECURSIVE ParseValue(_, _), ParseMembers(_, _), ParseElements(_, _)
ParseValue(s, i) ==
    IF i > Len(s) THEN 0
    ELSE IF s[i] = "DEEP" THEN -1
    ELSE IF s[i] \in Atoms THEN i + 1
    ELSE IF s[i] = "QUOTE"
         THEN LET ends == { c \in (i + 1)..Len(s) : s[c] \in Keys \cup {"QUOTE"} } IN
              IF ends = {} THEN 0
              ELSE LET c == CHOOSE c \in ends : \A d \in ends : c <= d IN
                   IF s[c] = "QUOTE" THEN c + 1 ELSE 0
    ELSE IF s[i] = "{"
         THEN LET j == SkipWs(s, i + 1) IN
              IF j > Len(s) THEN 0
              ELSE IF s[j] = "}" THEN j + 1 ELSE ParseMembers(s, j)
    ELSE IF s[i] = "["
         THEN LET j == SkipWs(s, i + 1) IN
              IF j > Len(s) THEN 0
              ELSE IF s[j] = "]" THEN j + 1 ELSE ParseElements(s, j)
    ELSE 0

ParseMembers(s, j) ==
    IF j > Len(s) \/ s[j] \notin Keys THEN 0
    ELSE LET e == ParseValue(s, SkipWs(s, j + 1)) IN
         IF e <= 0 THEN e
         ELSE LET n == SkipWs(s, e) IN
              IF n > Len(s) THEN 0
              ELSE IF s[n] = "}" THEN n + 1
              ELSE IF s[n] = "," THEN ParseMembers(s, SkipWs(s, n + 1))
              ELSE 0

ParseElements(s, j) ==
    LET e == ParseValue(s, j) IN
    IF e <= 0 THEN e
    ELSE LET n == SkipWs(s, e) IN
         IF n > Len(s) THEN 0
         ELSE IF s[n] = "]" THEN n + 1
         ELSE IF s[n] = "," THEN ParseElements(s, SkipWs(s, n + 1))
         ELSE 0

RECURSIVE Members(_, _)
\* the key/value pairs of a well-formed object, j being its first key or "}"
Members(s, j) ==
    IF s[j] = "}" THEN <<>>
    ELSE LET v == SkipWs(s, j + 1)
             e == ParseValue(s, v)
             n == SkipWs(s, e)
         IN  <<[key |-> s[j], val |-> Compact(SubSeq(s, v, e - 1))]>>
             \o (IF s[n] = "," THEN Members(s, SkipWs(s, n + 1)) ELSE <<>>)

\* a dict as the set of its <<key, value>> items; a repeated key keeps its last value
DictOf(ms) ==
    { <<ms[i].key, ms[i].val>> : i \in { n \in 1..Len(ms) :
                                   \A m \in (n + 1)..Len(ms) : ms[m].key # ms[n].key } }

\* json.loads(text): err is the class of the exception it raises ("None" when it
\* returns), isdict is isinstance(result, dict)
JsonLoads(s) ==
    LET b == SkipWs(s, 1)
        e == ParseValue(s, b)
    IN  IF e = -1
        THEN [err |-> "RecursionError", isdict |-> FALSE, dict |-> {}]
        ELSE IF e = 0 \/ SkipWs(s, e) # Len(s) + 1
        THEN [err |-> "JSONDecodeError", isdict |-> FALSE, dict |-> {}]
        ELSE IF s[b] = "{"
             THEN [err |-> "None", isdict |-> TRUE,
                   dict |-> DictOf(Members(s, SkipWs(s, b + 1)))]
             ELSE [err |-> "None", isdict |-> FALSE, dict |-> {}]

\* ------------------------------------------------- _parse_json_response
\* a greedy group: the region runs to the last fence marker
FenceMatch_lastFence(s) ==
    LET i == Find(s, Fence)
        j == CHOOSE j \in 0..Len(s) :
                /\ j = 0 \/ s[j] = Fence
                /\ \A m \in (j + 1)..Len(s) : s[m] # Fence
    IN  IF i = 0 \/ j <= i
        THEN [found |-> FALSE, group1 |-> <<>>]
        ELSE LET a  == IF i + 1 < j /\ s[i + 1] = LangTag THEN i + 2 ELSE i + 1
                 b0 == SkipWs(s, a)
                 b  == IF b0 > j THEN j ELSE b0
             IN  [found |-> TRUE, group1 |-> SubSeq(s, b, j - 1)]

\* re.search of the fence pattern on text: group(1), found = there is a match
FenceMatch(s) ==
    LET i == Find(s, Fence) IN
    IF i = 0 \/ Find(SubSeq(s, i + 1, Len(s)), Fence) = 0
    THEN [found |-> FALSE, group1 |-> <<>>]
    ELSE LET j  == i + Find(SubSeq(s, i + 1, Len(s)), Fence)
             a  == IF i + 1 < j /\ s[i + 1] = LangTag THEN i + 2 ELSE i + 1
             b0 == SkipWs(s, a)
             b  == IF b0 > j THEN j ELSE b0
         IN  [found |-> TRUE, group1 |-> SubSeq(s, b, j - 1)]

\* the value None of "dict | None"; raised is the class of the exception that
\* leaves the call, "None" when the call returns
NoneResult == [isNone |-> TRUE, dict |-> {}, raised |-> "None"]

\* without the search for the opening brace of lines 205-208
_parse_json_response_noPreamble(text) ==
    LET t1 == Strip(text)
        fm == FenceMatch(t1)
        t2 == IF fm.found THEN Strip(fm.group1) ELSE t1
        r  == JsonLoads(t2)
    IN  IF r.err = "None"
        THEN IF r.isdict THEN [isNone |-> FALSE, dict |-> r.dict, raised |-> "None"]
             ELSE NoneResult
        ELSE IF r.err = "JSONDecodeError" THEN NoneResult
        ELSE [isNone |-> TRUE, dict |-> {}, raised |-> r.err]

_parse_json_response(text) ==
    LET t1 == Strip(text)
        fm == FenceMatch(t1)
        t2 == IF fm.found THEN Strip(fm.group1) ELSE t1
        bs == Find(t2, "{")
        t3 == IF (Len(t2) = 0 \/ t2[1] # "{") /\ bs # 0
              THEN SubSeq(t2, bs, Len(t2)) ELSE t2
        r  == JsonLoads(t3)
    IN  IF r.err = "None"
        THEN IF r.isdict THEN [isNone |-> FALSE, dict |-> r.dict, raised |-> "None"]
             ELSE NoneResult
        ELSE IF r.err = "JSONDecodeError" THEN NoneResult
        ELSE [isNone |-> TRUE, dict |-> {}, raised |-> r.err]

\* --------------------------------------------------- the simulated endpoint
\* response texts the endpoint may return (message.content[0].text), each
\* nested less deeply than the recursion limit of json.loads
ResponseTexts ==
    { <<"{", "k", "1", "}">>,
      <<"{", "}">>,
      <<"FENCE", "json", " ", "{", "k", "true", "}", " ", "FENCE">>,
      <<"text", " ", "{", "k", "1", ",", "_parse_error", "true", "}">>,
      <<"[", "{", "k", "1", "}", "]">>,
      <<"text">>,
      <<"{", "k">> }

\* exceptions client.messages.create may raise; status_code 0: the class has none
NoExc == [cls |-> "None", status_code |-> 0]

Exceptions ==
    { [cls |-> "RateLimitError",        status_code |-> 429],
      [cls |-> "BadRequestError",       status_code |-> 400],
      [cls |-> "NotFoundError",         status_code |-> 404],
      [cls |-> "InternalServerError",   status_code |-> 500],
      [cls |-> "APIStatusError",        status_code |-> 503],
      [cls |-> "APIConnectionError",    status_code |-> 0],
      [cls |-> "APITimeoutError",       status_code |-> 0] }

\* isinstance(exc, c) for the exception classes named by the except clauses
IsInstance(exc, c) ==
    \/ exc.cls = c
    \/ c = "APIStatusError" /\ exc.cls \in {"RateLimitError", "BadRequestError",
                                            "NotFoundError", "InternalServerError"}
    \/ c = "APIConnectionError" /\ exc.cls = "APITimeoutError"

\* the except clauses of analyze, in source order
ExceptClauses == <<"RateLimitError", "APIStatusError", "APIConnectionError">>

\* the except clause that catches exc: the first one whose class matches
Handler(exc) ==
    LET m == { i \in 1..Len(ExceptClauses) : IsInstance(exc, ExceptClauses[i]) }
    IN  ExceptClauses[CHOOSE i \in m : \A j \in m : i <= j]

\* ------------------------------------------------------------------ analyze
\* a backoff that does not grow
Backoff_constant(k) == LLM_RETRY_BASE_SECONDS

\* a backoff that grows linearly
Backoff_linear(k) == LLM_RETRY_BASE_SECONDS * k

\* wait = LLM_RETRY_BASE_SECONDS * (2 ** (attempt - 1))
Backoff(k) == LLM_RETRY_BASE_SECONDS * (2 ^ (k - 1))

\* every status error is retried
IsServerError_any4xx(exc) == exc.status_code >= 400

\* exc.status_code >= 500
IsServerError(exc) == exc.status_code >= 500

\* attempt == LLM_MAX_RETRIES
IsLastAttempt(k) == k = LLM_MAX_RETRIES

\* a loop of one iteration too many
HasNextAttempt_offByOne(k) == k < LLM_MAX_RETRIES + 1

\* range(1, LLM_MAX_RETRIES + 1) has a value after k
HasNextAttempt(k) == k + 1 < LLM_MAX_RETRIES + 1

\* a fallback that drops the response text
Fallback_dropsText(text) == { <<"raw_response", <<>>>>, <<"_parse_error", <<"true">>>> }

\* {"raw_response": raw_text, "_parse_error": True}
Fallback(text) == { <<"raw_response", text>>, <<"_parse_error", <<"true">>>> }

\* the code of SystemExit raised at the non-retryable branch and after the loop
ExitNonRetryable == 4

ExitExhausted == 4

VARIABLES
    pc,         \* Sending, AwaitingResponse, RetryableError (asleep), or a terminal state
    attempt,    \* the loop variable
    last_exc,   \* last_exc
    raw_text,   \* raw_text of the latest response
    returned,   \* analyze has returned
    result,     \* the dict it returned
    exitCode,   \* code of the SystemExit it raised, 0 while none
    cause,      \* __cause__ of that SystemExit
    errlog,     \* the logger.error message written, "" while none
    outstanding,\* requests sent and not yet answered
    events,     \* history: requests, responses, errors and sleeps, in order
    trim,       \* one call of _trim_articles or _trim_posts: arguments and result
    fmt,        \* one call of format_context: arguments and result
    run,        \* one run of analyze.main
    parse,      \* one call of _parse_json_response: argument and result
    cache       \* the cache directory, the clock and the calls of a cached fetcher

vars == <<pc, attempt, last_exc, raw_text, returned, result, exitCode, cause,
          errlog, outstanding, events, trim, fmt, run, parse, cache>>

\* the state of the parts of the program that a specification leaves out
Idle == [pc |-> "idle"]

\* what analysis.llm.analyze does not touch
outside_llm == <<trim, fmt, run, parse, cache>>

Terminal == {"ParseSuccess", "ParseFailureExhausted", "FatalError"}

Ev(type, k, text, exc, wait) ==
    [type |-> type, k |-> k, text |-> text, exc |-> exc, wait |-> wait]

Init ==
    /\ pc = "Sending"
    /\ attempt = 1
    /\ last_exc = NoExc
    /\ raw_text = <<>>
    /\ returned = FALSE
    /\ result = {}
    /\ exitCode = 0
    /\ cause = NoExc
    /\ errlog = ""
    /\ outstanding = 0
    /\ events = <<>>
    /\ trim = Idle
    /\ fmt = Idle
    /\ run = Idle
    /\ parse = Idle
    /\ cache = Idle

\* the for statement takes its next value, or the loop ends and lines 181-183 run
\* a loop that, once exhausted, falls back on the raw text of an earlier attempt
LoopNext_keepsRawText ==
    IF HasNextAttempt(attempt)
    THEN /\ attempt' = attempt + 1
         /\ pc' = "Sending"
         /\ UNCHANGED <<exitCode, cause, errlog>>
    ELSE /\ pc' = IF raw_text # <<>> THEN "ParseFailureExhausted" ELSE "FatalError"
         /\ exitCode' = IF raw_text # <<>> THEN 0 ELSE ExitExhausted
         /\ cause' = last_exc
         /\ errlog' = "all_retries_failed"
         /\ UNCHANGED attempt

LoopNext ==
    IF HasNextAttempt(attempt)
    THEN /\ attempt' = attempt + 1
         /\ pc' = "Sending"
         /\ UNCHANGED <<exitCode, cause, errlog>>
    ELSE /\ pc' = "FatalError"
         /\ exitCode' = ExitExhausted
         /\ cause' = last_exc
         /\ errlog' = "all_retries_failed"
         /\ UNCHANGED attempt

\* client.messages.create(...) is called
SendRequest ==
    /\ pc = "Sending"
    /\ pc' = "AwaitingResponse"
    /\ outstanding' = outstanding + 1
    /\ events' = Append(events, Ev("request", attempt, <<>>, NoExc, 0))
    /\ UNCHANGED <<attempt, last_exc, raw_text, returned, result, exitCode, cause, errlog>>
    /\ UNCHANGED outside_llm

\* "if parsed:" -- an empty mapping counts as a failure
ParsedOk_truthy(parsed) == ~parsed.isNone /\ parsed.dict # {}

\* a parse failure that backs off before the next attempt
OnParseFailure_backsOff(text) ==
    IF IsLastAttempt(attempt)
    THEN /\ events' = Append(events, Ev("response", attempt, text, NoExc, 0))
         /\ pc' = "ParseFailureExhausted"
         /\ returned' = TRUE
         /\ result' = Fallback(text)
         /\ errlog' = "raw_text_fallback"
         /\ UNCHANGED <<attempt, exitCode, cause>>
    ELSE /\ events' = events \o << Ev("response", attempt, text, NoExc, 0),
                                   Ev("sleep", attempt, <<>>, NoExc, Backoff(attempt)) >>
         /\ pc' = "RetryableError"
         /\ UNCHANGED <<attempt, exitCode, cause, errlog, returned, result>>

\* parsed is not None
ParsedOk(parsed) == ~parsed.isNone

\* JSON parsing failed: lines 140-147, then the next iteration
OnParseFailure(text) ==
    /\ events' = Append(events, Ev("response", attempt, text, NoExc, 0))
    /\ IF IsLastAttempt(attempt)
       THEN /\ pc' = "ParseFailureExhausted"
            /\ returned' = TRUE
            /\ result' = Fallback(text)
            /\ errlog' = "raw_text_fallback"
            /\ UNCHANGED <<attempt, exitCode, cause>>
       ELSE /\ LoopNext
            /\ UNCHANGED <<returned, result>>

\* the call returns a message: lines 132-147
ReceiveText ==
    /\ pc = "AwaitingResponse"
    /\ \E text \in ResponseTexts :
        LET parsed == _parse_json_response(text) IN
        /\ raw_text' = text
        /\ outstanding' = outstanding - 1
        /\ IF ParsedOk(parsed)
           THEN /\ pc' = "ParseSuccess"
                /\ returned' = TRUE
                /\ result' = parsed.dict
                /\ events' = Append(events, Ev("response", attempt, text, NoExc, 0))
                /\ UNCHANGED <<attempt, exitCode, cause, errlog>>
           ELSE OnParseFailure(text)
    /\ UNCHANGED last_exc
    /\ UNCHANGED outside_llm

\* a handler that keeps the first error in last_exc
SleepAfter_keepsFirst(exc) ==
    /\ last_exc' = IF last_exc = NoExc THEN exc ELSE last_exc
    /\ pc' = "RetryableError"
    /\ outstanding' = outstanding - 1
    /\ events' = events \o << Ev("error", attempt, <<>>, exc, 0),
                              Ev("sleep", attempt, <<>>, NoExc, Backoff(attempt)) >>
    /\ UNCHANGED <<attempt, raw_text, returned, result, exitCode, cause, errlog>>

\* a handler that does not sleep after the last attempt
SleepAfter_skipsLast(exc) ==
    /\ last_exc' = exc
    /\ pc' = "RetryableError"
    /\ outstanding' = outstanding - 1
    /\ events' = events \o << Ev("error", attempt, <<>>, exc, 0) >>
                         \o (IF IsLastAttempt(attempt) THEN <<>>
                             ELSE << Ev("sleep", attempt, <<>>, NoExc, Backoff(attempt)) >>)
    /\ UNCHANGED <<attempt, raw_text, returned, result, exitCode, cause, errlog>>

\* a handler that retries: last_exc = exc, then time.sleep(wait) starts
SleepAfter(exc) ==
    /\ last_exc' = exc
    /\ pc' = "RetryableError"
    /\ outstanding' = outstanding - 1
    /\ events' = events \o << Ev("error", attempt, <<>>, exc, 0),
                              Ev("sleep", attempt, <<>>, NoExc, Backoff(attempt)) >>
    /\ UNCHANGED <<attempt, raw_text, returned, result, exitCode, cause, errlog>>

\* except anthropic.RateLimitError: lines 149-155
OnRateLimitError ==
    /\ pc = "AwaitingResponse"
    /\ \E exc \in Exceptions :
        /\ Handler(exc) = "RateLimitError"
        /\ SleepAfter(exc)
    /\ UNCHANGED outside_llm

\* except anthropic.APIStatusError: lines 157-171
OnAPIStatusError ==
    /\ pc = "AwaitingResponse"
    /\ \E exc \in Exceptions :
        /\ Handler(exc) = "APIStatusError"
        /\ IF IsServerError(exc)
           THEN SleepAfter(exc)
           ELSE /\ last_exc' = exc
                /\ pc' = "FatalError"
                /\ exitCode' = ExitNonRetryable
                /\ cause' = exc
                /\ errlog' = "non_retryable"
                /\ outstanding' = outstanding - 1
                /\ events' = Append(events, Ev("error", attempt, <<>>, exc, 0))
                /\ UNCHANGED <<attempt, raw_text, returned, result>>
    /\ UNCHANGED outside_llm

\* except anthropic.APIConnectionError: lines 173-179
OnAPIConnectionError ==
    /\ pc = "AwaitingResponse"
    /\ \E exc \in Exceptions :
        /\ Handler(exc) = "APIConnectionError"
        /\ SleepAfter(exc)
    /\ UNCHANGED outside_llm

\* time.sleep(wait) returns and the loop goes on
SleepDone ==
    /\ pc = "RetryableError"
    /\ LoopNext
    /\ UNCHANGED <<last_exc, raw_text, returned, result, outstanding, events>>
    /\ UNCHANGED outside_llm

Next ==
    \/ SendRequest
    \/ ReceiveText
    \/ OnRateLimitError
    \/ OnAPIStatusError
    \/ OnAPIConnectionError
    \/ SleepDone

Spec == Init /\ [][Next]_vars

\* the call and the sleep both come back: the client has a request timeout
FairSpec == Spec /\ WF_vars(Next)

\* ------------------------------------------------- reading the event history
\* the outcomes of the attempts made so far: responses and errors, in order
Outcomes == SelectSeq(events, LAMBDA e : e.type \in {"response", "error"})

\* the durations of the sleeps performed so far, in order
SleepWaits == SelectSeq(events, LAMBDA e : e.type = "sleep")

\* the number of requests among the first i events
RequestsUpTo(i) == Cardinality({ j \in 1..i : events[j].type = "request" })

NumRequests == RequestsUpTo(Len(events))

Coercible(text) == ~_parse_json_response(text).isNone

IsRateLimit(exc) == exc.cls = "RateLimitError"

IsConnectionFailure(exc) == exc.cls \in {"APIConnectionError", "APITimeoutError"}

Is5xx(exc) == exc.status_code \in 500..599

IsClientFault(exc) == exc.status_code \in 400..499 /\ exc.status_code # 429

Retryable(exc) == IsRateLimit(exc) \/ IsConnectionFailure(exc) \/ Is5xx(exc)

\* ------------------------------------------------------------------- claims
C1_Case ==
    /\ Len(Outcomes) = 3
    /\ Outcomes[1].type = "error" /\ IsRateLimit(Outcomes[1].exc)
    /\ Outcomes[2].type = "error" /\ IsRateLimit(Outcomes[2].exc)
    /\ Outcomes[3].type = "response" /\ Coercible(Outcomes[3].text)

\* C1: rate-limited on attempts 1 and 2 and answered with a coercible mapping
\* on attempt 3, analyze returns that mapping (ParseSuccess) after exactly 3
\* requests and exactly two sleeps, the second strictly longer than the first.
C1_RateLimitTwiceThenSuccess ==
    C1_Case =>
        /\ pc = "ParseSuccess"
        /\ returned /\ exitCode = 0
        /\ result = _parse_json_response(Outcomes[3].text).dict
        /\ NumRequests = 3
        /\ Len(SleepWaits) = 2
        /\ SleepWaits[2].wait > SleepWaits[1].wait

C1_Witness == C1_Case /\ pc = "ParseSuccess"

C2_Case ==
    \A i \in 1..Len(Outcomes) :
        Outcomes[i].type = "response" /\ ~Coercible(Outcomes[i].text)

C3_ClientFaultIsFatal ==
    \A i \in 1..Len(events) :
        (events[i].type = "error" /\ IsClientFault(events[i].exc)) =>
            /\ i = Len(events)
            /\ pc = "FatalError"
            /\ exitCode # 0 /\ ~returned
            /\ outstanding = 0
            /\ NumRequests = events[i].k

C3_Witness ==
    /\ pc = "FatalError"
    /\ events[Len(events)].type = "error"
    /\ IsClientFault(events[Len(events)].exc)
    /\ events[Len(events)].k = 2
    /\ Len(SleepWaits) = 1

C4_Case ==
    /\ Len(Outcomes) = LLM_MAX_RETRIES
    /\ \A i \in 1..Len(Outcomes) :
        Outcomes[i].type = "error" /\ Retryable(Outcomes[i].exc)

\* C4: when all LLM_MAX_RETRIES attempts end in retryable errors, analyze never
\* returns a result; once the last sleep is over it is in FatalError and the
\* SystemExit carries the error of the last attempt.
C4_RetryableExhaustionIsFatal ==
    C4_Case =>
        /\ ~returned /\ result = {}
        /\ pc \in {"RetryableError", "FatalError"}
        /\ pc = "FatalError" =>
              /\ exitCode = ExitExhausted
              /\ cause = Outcomes[LLM_MAX_RETRIES].exc

C4_Witness ==
    /\ C4_Case
    /\ pc = "FatalError"
    /\ Outcomes[1].exc # Outcomes[LLM_MAX_RETRIES].exc

\* C5: every sleep follows a retryable error (rate limit, connection failure or
\* 5xx) and lasts LLM_RETRY_BASE_SECONDS * 2^(k-1), k being the number of
\* requests made so far, parse failures included.
C5_BackoffDoubles ==
    \A i \in 1..Len(events) :
        events[i].type = "sleep" =>
            /\ i > 1
            /\ events[i - 1].type = "error" /\ Retryable(events[i - 1].exc)
            /\ events[i].wait = LLM_RETRY_BASE_SECONDS * (2 ^ (RequestsUpTo(i) - 1))

C5_Witness ==
    /\ Len(Outcomes) = 3
    /\ Outcomes[1].type = "response"
    /\ Outcomes[2].type = "response"
    /\ Outcomes[3].type = "error" /\ Is5xx(Outcomes[3].exc)
    /\ Len(SleepWaits) = 1 /\ SleepWaits[1].wait = 4

C7_SequentialAttempts ==
    /\ outstanding \in {0, 1}
    /\ outstanding = 1 <=> pc = "AwaitingResponse"
    /\ NumRequests <= LLM_MAX_RETRIES
    /\ pc = "RetryableError" => events[Len(events)].type = "sleep"
    /\ \A i \in 1..Len(events) :
        events[i].type = "request" =>
            /\ events[i].k = RequestsUpTo(i)
            /\ i > 1 =>
                /\ events[i - 1].type \in {"response", "sleep"}
                /\ events[i - 1].k = events[i].k - 1

C7_Witness ==
    /\ NumRequests = LLM_MAX_RETRIES
    /\ \E i \in 1..Len(Outcomes) : Outcomes[i].type = "response"
    /\ \E i \in 1..Len(Outcomes) : Outcomes[i].type = "error"

\* exactly one of the three terminal states, with the outcome that belongs to it
InOneTerminalState ==
    /\ pc \in Terminal
    /\ outstanding = 0
    /\ pc = "FatalError" <=> exitCode # 0
    /\ pc \in {"ParseSuccess", "ParseFailureExhausted"} <=> returned
    /\ ~(returned /\ exitCode # 0)

C9_FirstCoercibleResponseWins ==
    \A i \in 1..Len(events) :
        (events[i].type = "response" /\ Coercible(events[i].text)) =>
            /\ i = Len(events)
            /\ pc = "ParseSuccess"
            /\ returned /\ exitCode = 0
            /\ result = _parse_json_response(events[i].text).dict
            /\ outstanding = 0

C9_Witness ==
    /\ pc = "ParseSuccess"
    /\ Len(Outcomes) = 3
    /\ Outcomes[1].type = "error"
    /\ Outcomes[2].type = "response"
    /\ result = {}

\* analyze raised because a request was rejected with a non-retryable status
FatalByRejection ==
    /\ pc = "FatalError"
    /\ events[Len(events)].type = "error"

\* analyze raised because the loop ran out of attempts
FatalByExhaustion ==
    /\ pc = "FatalError"
    /\ events[Len(events)].type = "sleep"

\* C10: the fatal outcome surfaced to the caller tells exhaustion of the
\* retries from a non-retryable rejection: the value raised on one path is
\* never the value raised on the other.
C10_FatalOutcomesDistinct ==
    /\ FatalByRejection => exitCode # ExitExhausted
    /\ FatalByExhaustion => exitCode # ExitNonRetryable

\* C10 (amended): both fatal paths raise SystemExit with the same code; what
\* tells them apart is the logger.error message and the chained cause, a
\* non-retryable status error on rejection and a retryable error on exhaustion.
C10_FatalPathsToldApartByLogAndCause ==
    pc = "FatalError" =>
        /\ exitCode = ExitNonRetryable /\ exitCode = ExitExhausted
        /\ FatalByRejection \/ FatalByExhaustion
        /\ FatalByRejection =>
              /\ errlog = "non_retryable"
              /\ IsInstance(cause, "APIStatusError") /\ ~Retryable(cause)
              /\ cause = events[Len(events)].exc
        /\ FatalByExhaustion =>
              /\ errlog = "all_retries_failed"
              /\ Retryable(cause)

C10_Witness ==
    /\ FatalByExhaustion
    /\ exitCode = ExitNonRetryable
    /\ Is5xx(cause)

(***************************************************************************)
(* analysis/formatter.py.                                                  *)
(*                                                                         *)
(* A str is a sequence of chunks.  A chunk [c, n, v] is n characters of    *)
(* kind c: "x" plain characters, "<" and ">" the two angle characters,     *)
(* "&lt;" and "&gt;" their entities, "int" and "float" a formatted number  *)
(* of value v, and any other c a literal of the source, n being its        *)
(* length.  A dict entry is a field [st, s, v]: st is "absent" when the    *)
(* key is missing, "none" for None, "str" for the str s, "num" for the     *)
(* number v.                                                               *)
(***************************************************************************)
Chunk(c, n, v) == [c |-> c, n |-> n, v |-> v]

\* a literal of the source, n characters long
Lit(c, n) == << Chunk(c, n, 0) >>

\* n characters of kind c; the empty str when n = 0
Chars(c, n) == IF n = 0 THEN <<>> ELSE << Chunk(c, n, 0) >>

Absent == [st |-> "absent", s |-> <<>>, v |-> 0]

None == [st |-> "none", s |-> <<>>, v |-> 0]

Str(t) == [st |-> "str", s |-> t, v |-> 0]

Num(v) == [st |-> "num", s |-> <<>>, v |-> v]

RECURSIVE LenBetween(_, _, _)
\* the characters of the chunks lo..hi of a text, summed by halves
LenBetween(t, lo, hi) ==
    IF lo > hi THEN 0
    ELSE IF lo = hi THEN t[lo].n
    ELSE LenBetween(t, lo, (lo + hi) \div 2) + LenBetween(t, (lo + hi) \div 2 + 1, hi)

\* len(text)
StrLen(t) == LenBetween(t, 1, Len(t))

\* the truth value of a field: None, a missing key, "" and 0 are false
Truthy(f) ==
    \/ f.st = "str" /\ StrLen(f.s) > 0
    \/ f.st = "num" /\ f.v # 0

\* d.get(key) or default, for a str
StrOr(f, default) == IF Truthy(f) THEN f.s ELSE default

Min(a, b) == IF a <= b THEN a ELSE b

Max(a, b) == IF a >= b THEN a ELSE b

\* ------------------------------------------------------- size estimators
_CHARS_PER_TOKEN == 4

_MAX_CHARS == 80000 * _CHARS_PER_TOKEN

\* the per-item constants of the estimators
ArticleOverhead == 80

PostOverhead == 150

CommentOverhead == 20

BodyCap == 500

CommentCap == 200

\* one iteration of the loop of _estimate_articles_size
ArticleSize(a) ==
    StrLen(StrOr(a.title, <<>>)) + StrLen(StrOr(a.summary, <<>>)) + ArticleOverhead

\* "total = ..." in place of "total += ...": only the last item counts
_estimate_articles_size_lastOnly(articles) ==
    IF articles = <<>> THEN 0 ELSE ArticleSize(articles[Len(articles)])

RECURSIVE _estimate_articles_size(_)
_estimate_articles_size(articles) ==
    IF articles = <<>> THEN 0
    ELSE ArticleSize(Head(articles)) + _estimate_articles_size(Tail(articles))

RECURSIVE CommentsSize(_)
\* the inner loop of _estimate_posts_size over top_comments
CommentsSize(cs) ==
    IF cs = <<>> THEN 0
    ELSE Min(StrLen(StrOr(Head(cs).body, <<>>)), CommentCap) + CommentOverhead
         + CommentsSize(Tail(cs))

\* one iteration of the outer loop of _estimate_posts_size
PostSize(p) ==
    StrLen(StrOr(p.title, <<>>)) + Min(StrLen(StrOr(p.body, <<>>)), BodyCap)
    + PostOverhead + CommentsSize(p.top_comments)

RECURSIVE _estimate_posts_size(_)
_estimate_posts_size(posts) ==
    IF posts = <<>> THEN 0
    ELSE PostSize(Head(posts)) + _estimate_posts_size(Tail(posts))

\* ------------------------------------------------------------- trimmers
\* a pop() that removes the first item
Pop_head(list) == SubSeq(list, 2, Len(list))

\* list.pop() without its return value
Pop(list) == SubSeq(list, 1, Len(list) - 1)

RECURSIVE ArticlesLoop_oneMore(_, _, _)
\* a loop that also pops when the estimate equals the budget
ArticlesLoop_oneMore(articles, budget, removed) ==
    IF articles # <<>> /\ _estimate_articles_size(articles) >= budget
    THEN ArticlesLoop_oneMore(Pop(articles), budget, removed + 1)
    ELSE [items |-> articles, removed |-> removed]

RECURSIVE ArticlesLoop(_, _, _)
\* the while loop of _trim_articles
ArticlesLoop(articles, budget, removed) ==
    IF articles # <<>> /\ _estimate_articles_size(articles) > budget
    THEN ArticlesLoop(Pop(articles), budget, removed + 1)
    ELSE [items |-> articles, removed |-> removed]

_trim_articles(articles, budget) ==
    IF _estimate_articles_size(articles) <= budget
    THEN [items |-> articles, removed |-> 0]
    ELSE ArticlesLoop(articles, budget, 0)

RECURSIVE PostsLoop_keepsOne(_, _, _)
\* a loop that never pops the last post
PostsLoop_keepsOne(posts, budget, removed) ==
    IF Len(posts) > 1 /\ _estimate_posts_size(posts) > budget
    THEN PostsLoop_keepsOne(Pop(posts), budget, removed + 1)
    ELSE [items |-> posts, removed |-> removed]

RECURSIVE PostsLoop(_, _, _)
\* the while loop of _trim_posts
PostsLoop(posts, budget, removed) ==
    IF posts # <<>> /\ _estimate_posts_size(posts) > budget
    THEN PostsLoop(Pop(posts), budget, removed + 1)
    ELSE [items |-> posts, removed |-> removed]

_trim_posts(posts, budget) ==
    IF _estimate_posts_size(posts) <= budget
    THEN [items |-> posts, removed |-> 0]
    ELSE PostsLoop(posts, budget, 0)

\* ---------------------------------------- the inputs given to the trimmers
\* the longest list of articles or posts handed to a trimmer
MaxItems == 5

Article(title, summary, source, published_at, provider) ==
    [title |-> title, summary |-> summary, source |-> source,
     published_at |-> published_at, provider |-> provider]

Comment(body, score) == [body |-> body, score |-> score]

Post(title, body, score, num_comments, created_utc, subreddit, top_comments) ==
    [title |-> title, body |-> body, score |-> score, num_comments |-> num_comments,
     created_utc |-> created_utc, subreddit |-> subreddit, top_comments |-> top_comments]

\* estimates 200, 80 and 100080
TrimArticles ==
    { Article(Str(Chars("x", 100)), Str(Chars("x", 20)), Str(Chars("x", 7)),
              Str(Chars("x", 20)), Str(Chars("x", 7))),
      Article(None, Absent, Absent, None, Absent),
      Article(Str(Chars("<", 100000)), Str(<<>>), Str(Chars("x", 7)),
              Str(Chars("x", 20)), Str(Chars("x", 7))) }

\* estimates 880, 150 and 200
TrimPosts ==
    { Post(Str(Chars("x", 10)), Str(Chars("x", 600)), Num(42), Num(1), Num(1700000000),
           Str(Chars("x", 6)), << Comment(Str(Chars("x", 300)), Num(3)) >>),
      Post(None, Absent, Absent, Absent, None, Absent, <<>>),
      Post(Str(Chars("x", 30)), None, Num(0), Num(1), Num(1700000000),
           Str(Chars("x", 6)), << Comment(None, Absent) >>) }

\* every list of at most n items of the set S
ListsUpTo(S, n) == UNION { [1..k -> S] : k \in 0..n }

TrimCall(kind, arg, budget) ==
    [pc |-> "call", kind |-> kind, arg |-> arg, budget |-> budget,
     list |-> arg, ret |-> <<>>, removed |-> 0]

TrimInit ==
    /\ pc = "idle"
    /\ attempt = 1
    /\ last_exc = NoExc
    /\ raw_text = <<>>
    /\ returned = FALSE
    /\ result = {}
    /\ exitCode = 0
    /\ cause = NoExc
    /\ errlog = ""
    /\ outstanding = 0
    /\ events = <<>>
    /\ fmt = Idle
    /\ run = Idle
    /\ parse = Idle
    /\ cache = Idle
    /\ \E budget \in {-159000, -1, 0, 79, 80, 399, 400, 1000, 100500} :
        \/ \E arg \in ListsUpTo(TrimArticles, MaxItems) :
              trim = TrimCall("articles", arg, budget)
        \/ \E arg \in ListsUpTo(TrimPosts, MaxItems) :
              trim = TrimCall("posts", arg, budget)

outside_trim == <<pc, attempt, last_exc, raw_text, returned, result, exitCode, cause,
                  errlog, outstanding, events, fmt, run, parse, cache>>

\* _trim_articles(articles, budget): the list is truncated in place and returned
CallTrimArticles ==
    /\ trim.pc = "call" /\ trim.kind = "articles"
    /\ LET r == _trim_articles(trim.arg, trim.budget) IN
       trim' = [trim EXCEPT !.pc = "done", !.list = r.items, !.ret = r.items,
                            !.removed = r.removed]
    /\ UNCHANGED outside_trim

\* _trim_posts(posts, budget): the list is truncated in place and returned
CallTrimPosts ==
    /\ trim.pc = "call" /\ trim.kind = "posts"
    /\ LET r == _trim_posts(trim.arg, trim.budget) IN
       trim' = [trim EXCEPT !.pc = "done", !.list = r.items, !.ret = r.items,
                            !.removed = r.removed]
    /\ UNCHANGED outside_trim

TrimNext ==
    \/ CallTrimArticles
    \/ CallTrimPosts

TrimSpec == TrimInit /\ [][TrimNext]_vars

\* the estimate the trimmer of this call uses
TrimEstimate(list) ==
    IF trim.kind = "articles" THEN _estimate_articles_size(list)
    ELSE _estimate_posts_size(list)

IsPrefix(a, b) == Len(a) <= Len(b) /\ a = SubSeq(b, 1, Len(a))

\* C14: the collection a trimmer returns is a prefix of the one it was given,
\* and either its estimate is within the budget or it is empty.
C14_TrimKeepsPrefixWithinBudget ==
    trim.pc = "done" =>
        /\ IsPrefix(trim.ret, trim.arg)
        /\ TrimEstimate(trim.ret) <= trim.budget \/ trim.ret = <<>>

C14_Witness ==
    /\ trim.pc = "done"
    /\ trim.kind = "posts"
    /\ Len(trim.arg) = 3
    /\ Len(trim.ret) = 1
    /\ TrimEstimate(trim.arg) > trim.budget

\* the first k items of the collection the trimmer was given
ArgPrefix(k) == SubSeq(trim.arg, 1, k)

\* C15: the collection a trimmer returns is the longest prefix of its input
\* whose estimate is within the budget, and the count it returns is the number
\* of items dropped.
C15_TrimKeepsLongestFittingPrefix ==
    trim.pc = "done" =>
        /\ trim.removed = Len(trim.arg) - Len(trim.ret)
        /\ trim.ret = ArgPrefix(Len(trim.ret))
        /\ TrimEstimate(trim.ret) <= trim.budget
        /\ \A k \in (Len(trim.ret) + 1)..Len(trim.arg) :
              TrimEstimate(ArgPrefix(k)) > trim.budget

\* C15 (amended): as C15 when the budget is zero or more; under a negative
\* budget, which no prefix fits, the trimmer returns the empty collection.
C15_TrimKeepsLongestFittingPrefixOrNothing ==
    trim.pc = "done" =>
        /\ trim.removed = Len(trim.arg) - Len(trim.ret)
        /\ trim.ret = ArgPrefix(Len(trim.ret))
        /\ \A k \in (Len(trim.ret) + 1)..Len(trim.arg) :
              TrimEstimate(ArgPrefix(k)) > trim.budget
        /\ IF trim.budget >= 0
           THEN TrimEstimate(trim.ret) <= trim.budget
           ELSE trim.ret = <<>>

\* five articles of estimate 200 each against a budget of 400
C15_Witness ==
    /\ trim.pc = "done"
    /\ trim.kind = "articles"
    /\ Len(trim.arg) = 5
    /\ \A i \in 1..5 : ArticleSize(trim.arg[i]) = 200
    /\ trim.budget = 400
    /\ Len(trim.ret) = 2 /\ trim.removed = 3

\* C16: the estimate of a list never grows when its last item is removed, and
\* the estimate of the empty list is 0.
C16_EstimateMonotonic ==
    /\ TrimEstimate(<<>>) = 0
    /\ \A k \in 1..Len(trim.arg) :
          TrimEstimate(ArgPrefix(k - 1)) <= TrimEstimate(ArgPrefix(k))

C16_Witness ==
    /\ trim.pc = "done"
    /\ Len(trim.arg) >= 3
    /\ TrimEstimate(Pop(trim.arg)) < TrimEstimate(trim.arg)
    /\ trim.arg[1] # trim.arg[2]

\* ------------------------------------------------------ formatting helpers
\* "sep".join(lines)
RECURSIVE Join(_, _)
Join(lines, sep) ==
    IF lines = <<>> THEN <<>>
    ELSE IF Len(lines) = 1 THEN lines[1]
    ELSE lines[1] \o sep \o Join(Tail(lines), sep)

NL == Lit("\n", 1)

RECURSIVE Digits(_)
\* the number of decimal digits of v, its sign left out
Digits(v) ==
    IF v < 0 THEN Digits(-v) ELSE IF v < 10 THEN 1 ELSE 1 + Digits(v \div 10)

\* len(str(v)), and the thousands separators that "," adds
IntWidth(v) == Digits(v) + (IF v < 0 THEN 1 ELSE 0)

Commas(v) == (Digits(v) - 1) \div 3

\* f"{v:.Nf}" and f"{v:,.Nf}": the number v with decimals digits after the point
Float(v, decimals) == << Chunk("float", IntWidth(v) + 1 + decimals, v) >>

FloatCommas(v, decimals) ==
    << Chunk("float", IntWidth(v) + Commas(v) + 1 + decimals, v) >>

\* str(v) of an int read from the input, and f"{v:,}"
IntStr(v) == << Chunk("int", IntWidth(v), v) >>

IntCommas(v) == << Chunk("int", IntWidth(v) + Commas(v), v) >>

\* str(len(...)): a count the builder computed itself
Count(v) == << Chunk("len", IntWidth(v), v) >>

\* f"{t:>w}": t padded with spaces on the left
PadLeft(t, w) == Chars(" ", Max(0, w - StrLen(t))) \o t

RECURSIVE Take(_, _)
\* text[:k]
Take(t, k) ==
    IF t = <<>> \/ k <= 0 THEN <<>>
    ELSE IF Head(t).n <= k THEN << Head(t) >> \o Take(Tail(t), k - Head(t).n)
    ELSE << [Head(t) EXCEPT !.n = k] >>

\* d.get(key): None when the key is missing
Get(f) == IF f.st = "absent" THEN None ELSE f

\* d.get(key, default)
GetDefault(f, default) == IF f.st = "absent" THEN default ELSE f

\* f"{value}" of a field that may hold a str, a number or None
Show(f) ==
    IF f.st = "str" THEN f.s
    ELSE IF f.st = "num" THEN IntStr(f.v)
    ELSE Lit("None", 4)

NA == Lit("N/A", 3)

\* text.replace("<", "&lt;").replace(">", "&gt;")
_escape(text) ==
    [i \in 1..Len(text) |->
        IF text[i].c = "<" THEN Chunk("&lt;", 4 * text[i].n, 0)
        ELSE IF text[i].c = ">" THEN Chunk("&gt;", 4 * text[i].n, 0)
        ELSE text[i]]

\* prefix = "C$" if currency == "CAD" else "$"
Prefix(currency) == IF currency = Lit("CAD", 3) THEN Lit("C$", 2) ELSE Lit("$", 1)

_fmt_price(value, currency) ==
    IF value.st # "num" THEN NA
    ELSE Prefix(currency) \o FloatCommas(value.v, 2)

\* sign = "+" if x >= 0 else ""
Sign(v) == IF v >= 0 THEN Lit("+", 1) ELSE <<>>

_fmt_change(dollars, pct) ==
    IF dollars.st # "num" /\ pct.st # "num" THEN NA
    ELSE Join( (IF dollars.st = "num"
                THEN << Sign(dollars.v) \o FloatCommas(dollars.v, 2) >> ELSE <<>>)
               \o (IF pct.st = "num"
                   THEN << Sign(pct.v) \o Float(pct.v, 2) \o Lit("%", 1) >> ELSE <<>>),
               Lit(" / ", 3) )

\* market_cap is held in millions, 0 standing for a value under a million
_fmt_large(value, currency) ==
    IF value.st # "num" THEN NA
    ELSE IF value.v >= 1000000
         THEN Prefix(currency) \o Float(value.v \div 1000000, 2) \o Lit("T", 1)
    ELSE IF value.v >= 1000
         THEN Prefix(currency) \o Float(value.v \div 1000, 2) \o Lit("B", 1)
    ELSE IF value.v >= 1
         THEN Prefix(currency) \o Float(value.v, 2) \o Lit("M", 1)
    ELSE Prefix(currency) \o IntCommas(value.v)

_fmt_volume(value) ==
    IF value.st # "num" THEN NA
    ELSE IF value.v >= 1000000 THEN Float(value.v \div 1000000, 1) \o Lit("M", 1)
    ELSE IF value.v >= 1000 THEN Float(value.v \div 1000, 1) \o Lit("K", 1)
    ELSE IntStr(value.v)

_fmt_float(value, decimals) ==
    IF value.st # "num" THEN NA ELSE Float(value.v, decimals)

_fmt_pct(value) ==
    IF value.st # "num" THEN NA ELSE Float(value.v * 100, 2) \o Lit("%", 1)

_unix_to_date(timestamp) ==
    IF timestamp.st \in {"none", "absent"} THEN NA
    ELSE IF timestamp.st = "num" /\ timestamp.v >= 0 THEN Lit("YYYY-MM-DD", 10)
    ELSE NA

\* -------------------------------------------------------- section builders
_build_ticker_info(price, currency) ==
    Join(<< Lit("<ticker_info>", 13),
            Lit("Symbol: ", 8) \o StrOr(price.symbol, NA),
            Lit("Company: ", 9) \o StrOr(price.company_name, NA),
            Lit("Sector: ", 8) \o StrOr(price.sector, NA),
            Lit("Industry: ", 10) \o StrOr(price.industry, NA),
            Lit("Currency: ", 10) \o currency,
            Lit("Current Price: ", 15) \o _fmt_price(Get(price.current_price), currency)
                \o Lit(" (", 2) \o _fmt_change(Get(price.day_change_dollars),
                                         Get(price.day_change_percent)) \o Lit(")", 1),
            Lit("Previous Close: ", 16) \o _fmt_price(Get(price.previous_close), currency),
            Lit("52-Week Range: ", 15) \o _fmt_price(Get(price.week_52_low), currency)
                \o Lit(" - ", 3) \o _fmt_price(Get(price.week_52_high), currency),
            Lit("Market Cap: ", 12) \o _fmt_large(Get(price.market_cap), currency),
            Lit("Avg Volume (10d): ", 18) \o _fmt_volume(Get(price.volume_10day_avg)),
            Lit("Avg Volume (3m): ", 17) \o _fmt_volume(Get(price.volume_3month_avg)),
            Lit("Trailing P/E: ", 14) \o _fmt_float(Get(price.pe_trailing), 2),
            Lit("Forward P/E: ", 13) \o _fmt_float(Get(price.pe_forward), 2),
            Lit("EPS (TTM): ", 11) \o _fmt_float(Get(price.eps_trailing), 2),
            Lit("Dividend Yield: ", 16) \o _fmt_pct(Get(price.dividend_yield)),
            Lit("Beta: ", 6) \o _fmt_float(Get(price.beta), 2),
            Lit("</ticker_info>", 14) >>, NL)

\* [b[key] for b in bars if b.get(key) is not None], as the numbers
Present(bars, key) ==
    LET fs == [i \in 1..Len(bars) |-> bars[i][key]]
        ok == SelectSeq(fs, LAMBDA f : f.st = "num")
    IN  [i \in 1..Len(ok) |-> ok[i].v]

RECURSIVE SeqSum(_)
SeqSum(xs) == IF xs = <<>> THEN 0 ELSE Head(xs) + SeqSum(Tail(xs))

\* max(xs) if xs else None, min(xs) if xs else None
MaxOrNone(xs) ==
    IF xs = <<>> THEN None
    ELSE Num(CHOOSE m \in {xs[i] : i \in 1..Len(xs)} : \A i \in 1..Len(xs) : xs[i] <= m)

MinOrNone(xs) ==
    IF xs = <<>> THEN None
    ELSE Num(CHOOSE m \in {xs[i] : i \in 1..Len(xs)} : \A i \in 1..Len(xs) : xs[i] >= m)

\* the trend note: the mean of the last 5 closes against the 5 before them
TrendNote(closes) ==
    IF Len(closes) < 10 THEN <<>>
    ELSE LET n      == Len(closes)
             recent == SeqSum(SubSeq(closes, n - 4, n))
             prior  == SeqSum(SubSeq(closes, n - 9, n - 5))
         IN  IF 100 * recent > 102 * prior
             THEN Lit("Recent trend: Upward (last 5 days avg above prior 5 days).", 58)
             ELSE IF 100 * recent < 98 * prior
             THEN Lit("Recent trend: Downward (last 5 days avg below prior 5 days).", 60)
             ELSE Lit("Recent trend: Sideways (last 5 days avg near prior 5 days).", 59)

\* the period change line; the percentage is cut to a whole number, and the
\* arrow between the two prices is one character between two spaces
PeriodChange(open_price, close_price, currency) ==
    IF Truthy(open_price) /\ Truthy(close_price)
    THEN LET chg == ((close_price.v - open_price.v) * 100) \div open_price.v IN
         Lit("Period change: ", 15) \o Sign(chg) \o Float(chg, 2) \o Lit("% (", 3)
         \o _fmt_price(open_price, currency) \o Lit(" -> ", 3)
         \o _fmt_price(close_price, currency) \o Lit(").", 2)
    ELSE <<>>

\* f"{bar.get(key, 0):>w.2f}"; a bar never holds None, the fetcher builds
\* every value with float() or int()
BarCell(f, w) == PadLeft(Float(GetDefault(f, Num(0)).v, 2), w)

\* one line of the OHLCV table
BarRow(bar) ==
    GetDefault(bar.date, Str(<<>>)).s
    \o Chars(" ", Max(0, 12 - StrLen(GetDefault(bar.date, Str(<<>>)).s))) \o Lit(" ", 1)
    \o BarCell(bar.open, 9) \o Lit(" ", 1)
    \o BarCell(bar.high, 9) \o Lit(" ", 1)
    \o BarCell(bar.low, 9) \o Lit(" ", 1)
    \o BarCell(bar.close, 9) \o Lit(" ", 1)
    \o PadLeft(IntCommas(GetDefault(bar.volume, Num(0)).v), 12)

\* the number of bars the table shows
TableBars == 10

_build_price_data(price, currency) ==
    LET bars == price.ohlcv_30days IN
    IF bars = <<>>
    THEN Lit("<price_data>", 12) \o NL \o Lit("No OHLCV data available.", 24) \o NL \o Lit("</price_data>", 13)
    ELSE
    LET first   == bars[1]
        last    == bars[Len(bars)]
        volumes == Present(bars, "volume")
        avg_volume == IF volumes = <<>> THEN None
                      ELSE Num(SeqSum(volumes) \div Len(volumes))
        shown   == SubSeq(bars, Max(0, Len(bars) - TableBars) + 1, Len(bars))
        table   == Join(<< Lit("Date         Open      High      Low       Close     Volume", 59) >>
                        \o [i \in 1..Len(shown) |-> BarRow(shown[i])], NL)
    IN  Join(<< Lit("<price_data>", 12),
                Lit("Period: ", 8) \o GetDefault(first.date, Str(NA)).s \o Lit(" to ", 4)
                    \o GetDefault(last.date, Str(NA)).s \o Lit(" (", 2) \o Count(Len(bars))
                    \o Lit(" trading days)", 14),
                PeriodChange(Get(first.open), Get(last.close), currency),
                Lit("Period High: ", 13) \o _fmt_price(MaxOrNone(Present(bars, "high")), currency)
                    \o Lit("  |  Period Low: ", 17)
                    \o _fmt_price(MinOrNone(Present(bars, "low")), currency),
                Lit("Average Daily Volume: ", 22) \o _fmt_volume(avg_volume),
                TrendNote(Present(bars, "close")),
                <<>>,
                Lit("Recent OHLCV (last 10 bars):", 28),
                table,
                Lit("</price_data>", 13) >>, NL)

RECURSIVE StripText(_)
\* text.strip(): white space is a chunk of kind " "
StripText(t) ==
    IF t # <<>> /\ Head(t).c = " " THEN StripText(Tail(t))
    ELSE IF t # <<>> /\ t[Len(t)].c = " " THEN StripText(SubSeq(t, 1, Len(t) - 1))
    ELSE t

\* note = f' trimmed="{trimmed_count}"' if trimmed_count else ""
TrimmedNote(trimmed_count) ==
    IF trimmed_count # 0 THEN Lit(" trimmed=\"", 10) \o Count(trimmed_count) \o Lit("\"", 1) ELSE <<>>

\* the lines of one article
ArticleLines(article) ==
    LET source   == _escape(StrOr(Get(article.source), Lit("Unknown", 7)))
        date     == Take(StrOr(Get(article.published_at), <<>>), 10)
        title    == _escape(StrOr(Get(article.title), <<>>))
        summary  == _escape(StrOr(Get(article.summary), <<>>))
        provider == Show(GetDefault(article.provider, Str(<<>>)))
    IN  << Lit("<article source=\"", 17) \o source \o Lit("\" date=\"", 8) \o date
               \o Lit("\" provider=\"", 12) \o provider \o Lit("\">", 2),
           Lit("Headline: ", 10) \o title >>
        \o (IF summary # <<>> THEN << Lit("Summary: ", 9) \o summary >> ELSE <<>>)
        \o << Lit("</article>", 10) >>

RECURSIVE Flatten(_)
\* the concatenation of lists of lines
Flatten(ls) == IF ls = <<>> THEN <<>> ELSE Head(ls) \o Flatten(Tail(ls))

_build_news_articles(articles, trimmed_count) ==
    Join(<< Lit("<news_articles count=\"", 22) \o Count(Len(articles)) \o Lit("\"", 1)
               \o TrimmedNote(trimmed_count) \o Lit(">", 1) >>
         \o (IF articles = <<>>
             THEN << Lit("No news articles found for this period.", 39) >>
             ELSE Flatten([i \in 1..Len(articles) |-> ArticleLines(articles[i])]))
         \o << Lit("</news_articles>", 16) >>, NL)

\* config.SUBREDDITS in sorted order
SortedSubreddits ==
    << Lit("investing", 9), Lit("options", 7), Lit("stocks", 6), Lit("wallstreetbets", 14) >>

\* ",".join(sorted(breakdown.keys())); breakdown is the dict in insertion order
SubredditsStr(breakdown) ==
    IF breakdown = <<>> THEN NA
    ELSE LET keys   == {breakdown[i].sub : i \in 1..Len(breakdown)}
             sorted == SelectSeq(SortedSubreddits, LAMBDA s : s \in keys)
         IN  Join(sorted, Lit(",", 1))

RECURSIVE MostActive(_, _)
\* the first entry with the largest count, N/A and 0 when every count is 0
MostActive(breakdown, best) ==
    IF breakdown = <<>> THEN best
    ELSE MostActive(Tail(breakdown),
                    IF Head(breakdown).cnt > best.cnt
                    THEN [name |-> Head(breakdown).sub,
                          cnt |-> Head(breakdown).cnt]
                    ELSE best)

\* the lines of one comment
CommentLines(c) ==
    LET c_body  == _escape(StripText(StrOr(Get(c.body), <<>>)))
        c_score == GetDefault(c.score, Num(0))
    IN  IF c_body # <<>>
        THEN << Lit("  [", 3) \o Show(c_score) \o Lit("] ", 2) \o Take(c_body, CommentCap) >>
        ELSE <<>>

\* the lines of one post
PostLines(post) ==
    LET subreddit    == _escape(StrOr(Get(post.subreddit), <<>>))
        score        == GetDefault(post.score, Num(0))
        num_comments == GetDefault(post.num_comments, Num(0))
        date_str     == _unix_to_date(Get(post.created_utc))
        title        == _escape(StrOr(Get(post.title), <<>>))
        body         == _escape(StripText(StrOr(Get(post.body), <<>>)))
        top_comments == post.top_comments
    IN  << Lit("<post subreddit=\"", 17) \o subreddit \o Lit("\" score=\"", 9) \o Show(score)
               \o Lit("\" comments=\"", 12) \o Show(num_comments) \o Lit("\" date=\"", 8)
               \o date_str \o Lit("\">", 2),
           Lit("Title: ", 7) \o title >>
        \o (IF body # <<>>
            THEN << Lit("Body: ", 6) \o (IF StrLen(body) > BodyCap
                                   THEN Take(body, BodyCap) \o Lit("...", 3) ELSE body) >>
            ELSE <<>>)
        \o (IF top_comments # <<>>
            THEN << Lit("Top comments:", 13) >>
                 \o Flatten([i \in 1..Len(top_comments) |-> CommentLines(top_comments[i])])
            ELSE <<>>)
        \o << Lit("</post>", 7) >>

_build_reddit_posts(posts, stats, trimmed_count) ==
    LET count       == Len(posts)
        breakdown   == stats.subreddit_breakdown
        most_active == MostActive(breakdown, [name |-> NA, cnt |-> 0])
    IN  Join(<< Lit("<reddit_posts count=\"", 21) \o Count(count) \o Lit("\" subreddits=\"", 14)
                   \o SubredditsStr(breakdown) \o Lit("\"", 1) \o TrimmedNote(trimmed_count)
                   \o Lit(">", 1),
                Lit("<summary>", 9),
                Lit("Total posts found: ", 19)
                   \o (IF stats.total_posts.st = "absent" THEN Count(count)
                       ELSE Show(stats.total_posts)),
                Lit("Posts included: ", 16) \o Count(count),
                Lit("Average post score: ", 20) \o Show(GetDefault(stats.avg_score, Num(0))),
                Lit("Total comments: ", 16) \o Show(GetDefault(stats.total_comments, Num(0))),
                Lit("Most active subreddit: ", 23) \o most_active.name \o Lit(" (", 2)
                   \o Count(most_active.cnt) \o Lit(" posts)", 7),
                Lit("</summary>", 10) >>
             \o (IF posts = <<>>
                 THEN << Lit("No Reddit posts found for this ticker.", 38) >>
                 ELSE Flatten([i \in 1..Len(posts) |-> PostLines(posts[i])]))
             \o << Lit("</reddit_posts>", 15) >>, NL)

\* the lines of one filing
FilingLines(filing) ==
    LET form_type   == _escape(StrOr(Get(filing.form_type), <<>>))
        date        == StrOr(Get(filing.filing_date), <<>>)
        description == _escape(StrOr(Get(filing.description), <<>>))
        url         == StrOr(Get(filing.url), <<>>)
        content     == Get(filing.content)
    IN  << Lit("<filing type=\"", 14) \o form_type \o Lit("\" date=\"", 8) \o date \o Lit("\">", 2) >>
        \o (IF description # <<>> THEN << Lit("Description: ", 13) \o description >> ELSE <<>>)
        \o << Lit("URL: ", 5) \o url >>
        \o (IF Truthy(content) THEN << Lit("Content: ", 9) \o Show(content) >> ELSE <<>>)
        \o << Lit("</filing>", 9) >>

_build_sec_filings(sec) ==
    LET filings == sec.filings
        is_us   == sec.is_us_listed
        note    == StrOr(Get(sec.note), <<>>)
    IN  Join(<< Lit("<sec_filings count=\"", 20) \o Count(Len(filings)) \o Lit("\">", 2) >>
             \o (IF ~is_us
                 THEN << IF note # <<>> THEN note
                         ELSE Lit("No SEC filings (non-US listed security).", 40) >>
                 ELSE IF filings = <<>>
                 THEN << IF note # <<>> THEN note ELSE Lit("No recent SEC filings found.", 28) >>
                 ELSE (IF note # <<>> THEN << Lit("Note: ", 6) \o note >> ELSE <<>>)
                      \o Flatten([i \in 1..Len(filings) |-> FilingLines(filings[i])]))
             \o << Lit("</sec_filings>", 14) >>, NL)

\* a date that strptime reads with %Y-%m-%d, and what strftime makes of it
IsoDate == Lit("2025-01-30", 10)

LongDate == Lit("January 30, 2025", 16)

\* next_str of _build_earnings
NextStr(next_date, days_until) ==
    IF ~Truthy(next_date) THEN Lit("Unknown", 7)
    ELSE (IF next_date.s = IsoDate THEN LongDate ELSE next_date.s)
         \o (IF days_until.st # "none"
             THEN Lit(" (", 2) \o Show(days_until) \o Lit(" days away)", 11) ELSE <<>>)

_build_earnings(earnings) ==
    LET next_date    == Get(earnings.next_earnings_date)
        days_until   == Get(earnings.days_until_next)
        lq           == earnings.last_quarter
        beat_or_miss == StrOr(Get(lq.beat_or_miss), NA)
        eps_est      == Get(lq.eps_estimate)
        eps_act      == Get(lq.eps_actual)
        surprise     == Get(lq.eps_surprise_pct)
        period       == StrOr(Get(lq.period), NA)
        last_q_parts ==
            << Lit("Result: ", 8) \o beat_or_miss >>
            \o (IF eps_est.st # "none" /\ eps_act.st # "none"
                THEN << Lit("EPS estimate ", 13) \o _fmt_float(eps_est, 2) \o Lit(" vs actual ", 11)
                        \o _fmt_float(eps_act, 2) >>
                ELSE <<>>)
            \o (IF surprise.st # "none"
                THEN << Lit("EPS surprise: ", 14) \o Sign(surprise.v) \o Float(surprise.v, 2)
                        \o Lit("%", 1) >>
                ELSE <<>>)
    IN  Join(<< Lit("<earnings>", 10),
                Lit("Next earnings date: ", 20) \o NextStr(next_date, days_until),
                Lit("Most recent quarter (", 21) \o period \o Lit("): ", 3)
                    \o Join(last_q_parts, Lit(", ", 2)),
                Lit("</earnings>", 11) >>, NL)

\* ---------------------------------------------------------- format_context
\* the two budgets of line 67 and line 68, each handed the whole remainder
Budgets_whole(remaining_budget) ==
    [news |-> remaining_budget, reddit |-> remaining_budget]

\* the two budgets of line 67 and line 68
Budgets(remaining_budget) ==
    [news |-> remaining_budget \div 2, reddit |-> remaining_budget \div 2]

\* the list joined at lines 73-82
Sections(ticker_section, price_section, news_section, reddit_section, sec_section, earnings_section) ==
    << ticker_section, price_section, news_section, reddit_section,
       sec_section, earnings_section >>

\* price_data.get("currency") or "USD"
Currency(price_data) == StrOr(Get(price_data.currency), Lit("USD", 3))

\* the fixed sections joined, line 63
Fixed(price_data, sec_data, earnings_data) ==
    Join(<< _build_ticker_info(price_data, Currency(price_data)),
            _build_price_data(price_data, Currency(price_data)),
            _build_earnings(earnings_data),
            _build_sec_filings(sec_data) >>, Lit("\n\n", 2))

format_context(price_data, news_data, reddit_data, sec_data, earnings_data) ==
    LET currency         == Currency(price_data)
        ticker_section   == _build_ticker_info(price_data, currency)
        price_section    == _build_price_data(price_data, currency)
        earnings_section == _build_earnings(earnings_data)
        sec_section      == _build_sec_filings(sec_data)
        fixed            == Fixed(price_data, sec_data, earnings_data)
        remaining_budget == _MAX_CHARS - StrLen(fixed)
        news             == _trim_articles(news_data.articles,
                                           Budgets(remaining_budget).news)
        reddit           == _trim_posts(reddit_data.posts,
                                        Budgets(remaining_budget).reddit)
        news_section     == _build_news_articles(news.items, news.removed)
        reddit_section   == _build_reddit_posts(reddit.items, reddit_data.stats,
                                                reddit.removed)
    IN  [bundle |-> Join(Sections(ticker_section, price_section, news_section,
                                  reddit_section, sec_section, earnings_section),
                         Lit("\n\n", 2)),
         articles |-> news.items, news_trimmed |-> news.removed,
         posts |-> reddit.items, reddit_trimmed |-> reddit.removed,
         remaining_budget |-> remaining_budget]

\* ------------------------------------- the inputs given to format_context
\* the longest list of articles and the longest list of posts handed to format_context
MaxNews == 2

MaxPosts == 1

Bar(date, open, high, low, close, volume) ==
    [date |-> date, open |-> open, high |-> high, low |-> low, close |-> close,
     volume |-> volume]

\* a quoted US stock with eleven rising bars
FullPrice ==
    [symbol |-> Str(Lit("AAPL", 4)), company_name |-> Str(Lit("Apple Inc.", 10)),
     sector |-> Str(Lit("Technology", 10)),
     industry |-> Str(Lit("Consumer Electronics", 20)),
     currency |-> Str(Lit("USD", 3)), current_price |-> Num(230),
     day_change_dollars |-> Num(-2),
     day_change_percent |-> Num(-1), previous_close |-> Num(232),
     week_52_high |-> Num(260), week_52_low |-> Num(164), market_cap |-> Num(3400000),
     volume_10day_avg |-> Num(51000000), volume_3month_avg |-> Num(48000),
     pe_trailing |-> Num(35), pe_forward |-> Num(30), eps_trailing |-> Num(6),
     dividend_yield |-> Num(1), beta |-> Num(1),
     ohlcv_30days |-> [i \in 1..11 |->
         Bar(Str(IsoDate), Num(200 + 3 * i), Num(205 + 3 * i), Num(198 + 3 * i),
             Num(202 + 3 * i), Num(40000000 + i))]]

\* the quoted stock; the dict of a fetcher that found nothing, every key
\* missing; a Canadian listing with unknown ratios and a bar that lacks open
\* and volume
FmtPrices ==
    { FullPrice,
      [symbol |-> Absent, company_name |-> Absent, sector |-> Absent, industry |-> Absent,
       currency |-> Absent, current_price |-> Absent, day_change_dollars |-> Absent,
       day_change_percent |-> Absent, previous_close |-> Absent, week_52_high |-> Absent,
       week_52_low |-> Absent, market_cap |-> Absent, volume_10day_avg |-> Absent,
       volume_3month_avg |-> Absent, pe_trailing |-> Absent, pe_forward |-> Absent,
       eps_trailing |-> Absent, dividend_yield |-> Absent, beta |-> Absent,
       ohlcv_30days |-> <<>>],
      [symbol |-> Str(Lit("SHOP.TO", 7)), company_name |-> None, sector |-> None,
       industry |-> Str(<<>>), currency |-> Str(Lit("CAD", 3)), current_price |-> Num(1250),
       day_change_dollars |-> None, day_change_percent |-> Num(2),
       previous_close |-> None, week_52_high |-> Num(1300), week_52_low |-> None,
       market_cap |-> Num(900), volume_10day_avg |-> Num(900), volume_3month_avg |-> None,
       pe_trailing |-> None, pe_forward |-> None, eps_trailing |-> Num(-3),
       dividend_yield |-> None, beta |-> None,
       ohlcv_30days |-> << Bar(Str(IsoDate), Num(100), Num(110), Num(95), Num(105),
                               Num(1200)),
                           Bar(Absent, Absent, Num(112), Num(101), Num(108), Absent) >>] }

\* an everyday article; estimate 200
PlainArticle ==
    Article(Str(Chars("x", 100)), Str(Chars("x", 20)), Str(Lit("Reuters", 7)),
            Str(Chars("x", 20)), Str(Lit("finnhub", 7)))

\* an article whose headline alone is longer than half the budget, with
\* neither summary nor date; estimate 200080
LongArticle ==
    Article(Str(Chars("x", 200000)), None, Str(Chars("x", 7)), None,
            Str(Lit("newsapi", 7)))

\* with an article whose headline is angle brackets throughout, with an
\* empty summary and no source; estimate 100080
FmtArticles ==
    { PlainArticle, LongArticle,
      Article(Str(Chars("<", 100000)), Str(<<>>), Absent, Str(Chars("x", 20)),
              Str(Lit("newsapi", 7))) }

\* an everyday post with a long body and a long comment; estimate 880
PlainPost ==
    Post(Str(Chars("x", 10)), Str(Chars("x", 600)), Num(42), Num(1), Num(1700000000),
         Str(Lit("stocks", 6)), << Comment(Str(Chars("x", 300)), Num(3)) >>)

\* with a post whose title, body and comment carry angle brackets and outer
\* white space, without a score, estimate 204; and a post whose title alone
\* is longer than half the budget, estimate 170150
FmtPosts ==
    { PlainPost,
      Post(Str(Chars("x", 10) \o Chars(">", 1)),
           Str(Chars(" ", 2) \o Chars("<", 3) \o Chars("x", 10) \o Chars(" ", 1)),
           Absent, Num(2), Num(-1), Str(Lit("stocks", 6)),
           << Comment(Str(Chars(" ", 1) \o Chars(">", 2) \o Chars("x", 5)), Num(7)),
              Comment(None, Absent) >>),
      Post(Str(Chars("x", 170000)), None, Num(5), Absent, None, None, <<>>) }

Stats(total_posts, avg_score, total_comments, subreddit_breakdown) ==
    [total_posts |-> total_posts, avg_score |-> avg_score,
     total_comments |-> total_comments, subreddit_breakdown |-> subreddit_breakdown]

Filing(form_type, filing_date, description, url, content) ==
    [form_type |-> form_type, filing_date |-> filing_date, description |-> description,
     url |-> url, content |-> content]

Sec(filings, is_us_listed, note) ==
    [filings |-> filings, is_us_listed |-> is_us_listed, note |-> note]

\* no filings; the result of a failed fetcher; a foreign listing; an 8-K whose
\* text spells a section marker beside a 10-K without text; a filing whose
\* text alone is longer than the budget
FmtSecs ==
    { Sec(<<>>, TRUE, Absent),
      Sec(<<>>, TRUE, Str(Lit("Data unavailable due to fetcher error.", 38))),
      Sec(<<>>, FALSE, None),
      Sec(<< Filing(Str(Lit("8-K", 3)), Str(IsoDate), Str(Chars("x", 20) \o Chars(">", 1)),
                    Str(Chars("x", 60)),
                    Str(Chars("x", 50) \o Chars("<", 1) \o Lit("earnings", 8)
                        \o Chars(">", 1))),
             Filing(Str(Lit("10-K", 4)), Str(IsoDate), Str(<<>>), Str(Chars("x", 60)), None) >>,
          TRUE, Str(Chars("x", 30))),
      Sec(<< Filing(Str(Lit("8-K", 3)), Str(IsoDate), Str(Chars("x", 20)), Str(Chars("x", 60)),
                    Str(Chars("x", 319356))) >>, TRUE, Absent) }

LastQuarter(period, eps_estimate, eps_actual, eps_surprise_pct, beat_or_miss) ==
    [period |-> period, eps_estimate |-> eps_estimate, eps_actual |-> eps_actual,
     eps_surprise_pct |-> eps_surprise_pct, beat_or_miss |-> beat_or_miss]

Earnings(next_earnings_date, days_until_next, last_quarter) ==
    [next_earnings_date |-> next_earnings_date, days_until_next |-> days_until_next,
     last_quarter |-> last_quarter]

\* the result of a failed fetcher; a known date and quarter; a date strptime rejects
FmtEarnings ==
    { Earnings(None, None, LastQuarter(None, None, None, None, Str(NA))),
      Earnings(Str(IsoDate), Num(12),
               LastQuarter(Str(Lit("Q4 2024", 7)), Num(2), Num(3), Num(4), Str(Lit("Beat", 4)))),
      Earnings(Str(Lit("TBD", 3)), None,
               LastQuarter(Absent, Absent, Num(1), Num(-5), Absent)) }

\* no request to the model is under way
LlmIdle ==
    /\ pc = "idle"
    /\ attempt = 1
    /\ last_exc = NoExc
    /\ raw_text = <<>>
    /\ returned = FALSE
    /\ result = {}
    /\ exitCode = 0
    /\ cause = NoExc
    /\ errlog = ""
    /\ outstanding = 0
    /\ events = <<>>

\* the statistics are the empty dict or those of two posts
FormatInit ==
    /\ LlmIdle
    /\ trim = Idle
    /\ run = Idle
    /\ parse = Idle
    /\ cache = Idle
    /\ \E price_data \in FmtPrices, articles \in ListsUpTo(FmtArticles, MaxNews),
          posts \in ListsUpTo(FmtPosts, MaxPosts), stats \in { Stats(Absent, Absent, Absent, <<>>),
                      Stats(Num(2), Num(1078), Num(431),
                            << [sub |-> Lit("wallstreetbets", 14), cnt |-> 1],
                               [sub |-> Lit("stocks", 6), cnt |-> 1] >>) },
          sec_data \in FmtSecs, earnings_data \in FmtEarnings :
         fmt = [pc |-> "call", price_data |-> price_data,
                news_data |-> [articles |-> articles],
                reddit_data |-> [posts |-> posts, stats |-> stats],
                sec_data |-> sec_data, earnings_data |-> earnings_data]

outside_fmt == <<pc, attempt, last_exc, raw_text, returned, result, exitCode, cause,
                 errlog, outstanding, events, trim, run, parse, cache>>

\* a call that hands the caller's own lists to the trimmers
FormatContext_trimsCallerLists ==
    /\ fmt.pc = "call"
    /\ LET out == format_context(fmt.price_data, fmt.news_data, fmt.reddit_data,
                                 fmt.sec_data, fmt.earnings_data)
       IN  fmt' = [pc |-> "done", price_data |-> fmt.price_data,
                   news_data |-> [fmt.news_data EXCEPT !.articles = out.articles],
                   reddit_data |-> [fmt.reddit_data EXCEPT !.posts = out.posts],
                   sec_data |-> fmt.sec_data, earnings_data |-> fmt.earnings_data,
                   out |-> out]
    /\ UNCHANGED outside_fmt

\* format_context(price_data, news_data, reddit_data, sec_data, earnings_data):
\* the arguments stay as they were handed over, the lists are trimmed as copies
FormatContext ==
    /\ fmt.pc = "call"
    /\ fmt' = [pc |-> "done", price_data |-> fmt.price_data, news_data |-> fmt.news_data,
               reddit_data |-> fmt.reddit_data, sec_data |-> fmt.sec_data,
               earnings_data |-> fmt.earnings_data,
               out |-> format_context(fmt.price_data, fmt.news_data, fmt.reddit_data,
                                      fmt.sec_data, fmt.earnings_data)]
    /\ UNCHANGED outside_fmt

FormatSpec == FormatInit /\ [][FormatContext]_vars

FmtDone == "out" \in DOMAIN fmt

\* ------------------------------------------------- claims on format_context
\* the bundle of the finished call
Bundle == fmt.out.bundle

\* the bundle format_context would join from these two lists and trim counts
Render(articles, news_trimmed, posts, reddit_trimmed) ==
    LET currency == Currency(fmt.price_data) IN
    Join(Sections(_build_ticker_info(fmt.price_data, currency),
                  _build_price_data(fmt.price_data, currency),
                  _build_news_articles(articles, news_trimmed),
                  _build_reddit_posts(posts, fmt.reddit_data.stats, reddit_trimmed),
                  _build_sec_filings(fmt.sec_data),
                  _build_earnings(fmt.earnings_data)), Lit("\n\n", 2))

\* the render of the inputs as they were handed over
UntrimmedRender == Render(fmt.news_data.articles, 0, fmt.reddit_data.posts, 0)

\* the render of the fixed sections with empty news and social sections
EmptyRender == Render(<<>>, 0, <<>>, 0)

\* C12: when the render of the untrimmed inputs fits within the budget,
\* format_context removes no item and returns that render.
C12_FittingInputsAreNotTrimmed ==
    FmtDone /\ StrLen(UntrimmedRender) <= _MAX_CHARS =>
        /\ fmt.out.news_trimmed = 0
        /\ fmt.out.reddit_trimmed = 0
        /\ Bundle = UntrimmedRender

\* C13: the returned bundle is no longer than _MAX_CHARS whenever the fixed
\* sections with empty news and social sections fit within _MAX_CHARS.
C13_BundleWithinBudget ==
    FmtDone /\ StrLen(EmptyRender) <= _MAX_CHARS => StrLen(Bundle) <= _MAX_CHARS

\* the half budget, from the fixed sections alone
HalfBudget ==
    (_MAX_CHARS - StrLen(Fixed(fmt.price_data, fmt.sec_data, fmt.earnings_data))) \div 2

\* the longest prefix of list whose estimate is within budget, the empty
\* list when there is none
LongestFitting(list, Estimate(_), budget) ==
    LET fits == {k \in 0..Len(list) : Estimate(SubSeq(list, 1, k)) <= budget}
    IN  IF fits = {} THEN <<>>
        ELSE SubSeq(list, 1, CHOOSE k \in fits : \A j \in fits : j <= k)

SectionOrder ==
    << "<ticker_info>", "</ticker_info>", "<price_data>", "</price_data>",
       "<news_articles count=\"", "</news_articles>",
       "<reddit_posts count=\"", "</reddit_posts>",
       "<sec_filings count=\"", "</sec_filings>", "<earnings>", "</earnings>" >>

SectionMarkers == {SectionOrder[i] : i \in 1..Len(SectionOrder)}

\* the marker that the text of the bundle holds at chunk i, "" when it holds none:
\* a marker a builder wrote, or one that embedded text spells character by character
MarkerAt(bundle, i) ==
    IF bundle[i].c \in SectionMarkers THEN bundle[i].c
    ELSE IF /\ i + 2 <= Len(bundle)
            /\ bundle[i] = Chunk("<", 1, 0)
            /\ bundle[i + 1] = Chunk("earnings", 8, 0)
            /\ bundle[i + 2] = Chunk(">", 1, 0)
         THEN "<earnings>"
    ELSE ""

\* the markers of the bundle, in order
MarkersOf(bundle) ==
    LET at == SelectSeq([i \in 1..Len(bundle) |-> i],
                        LAMBDA i : MarkerAt(bundle, i) # "")
    IN  [k \in 1..Len(at) |-> MarkerAt(bundle, at[k])]

\* the first chunk of kind c
Pos(bundle, c) ==
    CHOOSE i \in 1..Len(bundle) :
        bundle[i].c = c /\ \A j \in 1..(i - 1) : bundle[j].c # c

\* a chunk of kind c stands between the markers open and close
InSection(bundle, open, close, c) ==
    \E i \in 1..Len(bundle) :
        /\ bundle[i].c = c
        /\ Pos(bundle, open) < i
        /\ i < Pos(bundle, close)

\* C18: the bundle holds the six sections exactly once, in the order
\* instrument, price, news, social, filings, earnings, and an empty domain is
\* rendered as its section holding a no-data text.
C18_SixSectionsOnceInOrder ==
    FmtDone =>
        /\ MarkersOf(Bundle) = SectionOrder
        /\ fmt.price_data.ohlcv_30days = <<>> =>
               InSection(Bundle, "<price_data>", "</price_data>",
                         "No OHLCV data available.")
        /\ fmt.news_data.articles = <<>> =>
               InSection(Bundle, "<news_articles count=\"", "</news_articles>",
                         "No news articles found for this period.")
        /\ fmt.reddit_data.posts = <<>> =>
               InSection(Bundle, "<reddit_posts count=\"", "</reddit_posts>",
                         "No Reddit posts found for this ticker.")
        /\ fmt.sec_data.filings = <<>> =>
               \/ Truthy(fmt.sec_data.note)
               \/ InSection(Bundle, "<sec_filings count=\"", "</sec_filings>",
                            "No recent SEC filings found.")
               \/ InSection(Bundle, "<sec_filings count=\"", "</sec_filings>",
                            "No SEC filings (non-US listed security).")
        /\ ~Truthy(fmt.earnings_data.next_earnings_date) =>
               InSection(Bundle, "<earnings>", "</earnings>", "Unknown")

\* C19: no raw angle bracket of the embedded text reaches the bundle; the
\* inputs carry angle brackets in text from the named sources only.
C19_NoRawAngleFromUntrustedText ==
    FmtDone => \A i \in 1..Len(Bundle) : Bundle[i].c \notin {"<", ">"}

\* the number of chunks of kind c
Occurrences(bundle, c) == Cardinality({i \in 1..Len(bundle) : bundle[i].c = c})

\* C20: a missing field is shown by a marker: no number read from the input
\* is rendered as zero (no input holds the number zero, so a rendered zero
\* stands for a missing value), and every article kept has its summary line.
C20_MissingFieldIsMarked ==
    FmtDone =>
        /\ \A i \in 1..Len(Bundle) : Bundle[i].c \in {"float", "int"} => Bundle[i].v # 0
        /\ Occurrences(Bundle, "Summary: ") = Len(fmt.out.articles)

\* ------------------------------------------------------------- analyze.main
\* the keys of fetcher_fns
FetcherNames == {"news", "reddit", "sec", "earnings"}

\* what each pooled fetcher returns when it succeeds
Fetched(name) ==
    CASE name = "news" ->
             { [articles |-> << PlainArticle >>], [articles |-> << LongArticle >>] }
      [] name = "reddit" ->
             { [posts |-> << PlainPost >>,
                stats |-> Stats(Num(1), Num(42), Num(1),
                                << [sub |-> Lit("stocks", 6), cnt |-> 1] >>)] }
      [] name = "sec" ->
             { Sec(<< Filing(Str(Lit("10-K", 4)), Str(IsoDate), Str(Chars("x", 20)), Str(Chars("x", 60)),
                             None) >>, TRUE, Str(<<>>)) }
      [] name = "earnings" ->
             { Earnings(Str(IsoDate), Num(12),
                        LastQuarter(Str(Lit("Q4 2024", 7)), Num(2), Num(3), Num(4),
                                    Str(Lit("Beat", 4)))) }

_empty_news == [articles |-> <<>>]

_empty_reddit == [posts |-> <<>>, stats |-> Stats(Num(0), Num(0), Num(0), <<>>)]

_empty_sec == Sec(<<>>, TRUE, Str(Lit("Data unavailable due to fetcher error.", 38)))

_empty_earnings ==
    Earnings(None, None, LastQuarter(None, None, None, None, Str(NA)))

\* the fallback of lines 165-168
EmptyOf(name) ==
    CASE name = "news" -> _empty_news
      [] name = "reddit" -> _empty_reddit
      [] name = "sec" -> _empty_sec
      [] name = "earnings" -> _empty_earnings

\* the exit codes of main
ExitBadTicker == 1

ExitBadConfig == 2

ExitNoData == 3

\* main has parsed its arguments. future and value are the state and the
\* result of each future, completed the futures that as_completed has yet to
\* yield; results[name] is None as long as name is not in set
MainInit ==
    /\ LlmIdle
    /\ trim = Idle
    /\ fmt = Idle
    /\ parse = Idle
    /\ cache = Idle
    /\ run =
        [pc |-> "config", fetched |-> {}, future |-> [name \in FetcherNames |-> "none"],
         value |-> [name \in FetcherNames |-> EmptyOf(name)], completed |-> <<>>,
         set |-> {}, results |-> [name \in FetcherNames |-> EmptyOf(name)],
         news_trimmed |-> 0, exit |-> 0]

outside_run == <<pc, attempt, last_exc, raw_text, returned, result, exitCode, cause,
                 errlog, outstanding, events, trim, fmt, parse, cache>>

\* sys.exit(code), or a SystemExit that leaves main
Exit(code) == run' = [run EXCEPT !.pc = "exited", !.exit = code]

\* load_config(): SystemExit(2) when a required variable is missing
LoadConfig ==
    /\ run.pc = "config"
    /\ \/ run' = [run EXCEPT !.pc = "price"]
       \/ Exit(ExitBadConfig)
    /\ UNCHANGED outside_run

\* fetch_price(ticker): lines 64-70
FetchPrice ==
    /\ run.pc = "price"
    /\ \/ run' = [run EXCEPT !.pc = "submit", !.fetched = {"price"}]
       \/ Exit(ExitBadTicker)
    /\ UNCHANGED outside_run

\* the four fetchers are handed to the pool: lines 125-129
Submit ==
    /\ run.pc = "submit"
    /\ run' = [run EXCEPT !.pc = "pool",
                          !.future = [name \in FetcherNames |-> "running"]]
    /\ UNCHANGED outside_run

\* a worker thread ends its fetcher, with a result or with an exception
FetcherEnds(name) ==
    /\ run.pc = "pool"
    /\ run.future[name] = "running"
    /\ \/ \E value \in Fetched(name) :
            run' = [run EXCEPT !.future[name] = "returned",
                               !.value[name] = value,
                               !.fetched = @ \cup {name},
                               !.completed = Append(@, name)]
       \/ run' = [run EXCEPT !.future[name] = "raised",
                             !.completed = Append(@, name)]
    /\ UNCHANGED outside_run

\* the main thread takes the next completed future: lines 130-147
Collect ==
    /\ run.pc = "pool"
    /\ run.completed # <<>>
    /\ LET name == Head(run.completed) IN
       run' = [run EXCEPT !.completed = Tail(@),
                          !.future[name] = "collected",
                          !.results[name] = IF run.future[name] = "returned"
                                            THEN run.value[name] ELSE @,
                          !.set = IF run.future[name] = "returned"
                                  THEN @ \cup {name} ELSE @]
    /\ UNCHANGED outside_run

\* the pool is left without waiting for the futures
Report_early ==
    /\ run.pc = "pool"
    /\ IF run.set = {}
       THEN Exit(ExitNoData)
       ELSE run' = [run EXCEPT !.pc = "format"]
    /\ UNCHANGED outside_run

\* the pool is left and the outcome is reported: lines 150-162
Report ==
    /\ run.pc = "pool"
    /\ \A name \in FetcherNames : run.future[name] = "collected"
    /\ IF run.set = {}
       THEN Exit(ExitNoData)
       ELSE run' = [run EXCEPT !.pc = "format"]
    /\ UNCHANGED outside_run

\* format_context(...): lines 165-182; a result that was never set is replaced
\* by the empty dict of its domain
FormatBundle ==
    /\ run.pc = "format"
    /\ LET data(name) == IF name \in run.set THEN run.results[name] ELSE EmptyOf(name)
           out == format_context(FullPrice, data("news"), data("reddit"), data("sec"),
                                 data("earnings"))
       IN  run' = [run EXCEPT !.pc = "analyze", !.news_trimmed = out.news_trimmed]
    /\ UNCHANGED outside_run

\* llm_analyze(context_bundle, api_key) is called: line 188
CallAnalyze ==
    /\ run.pc = "analyze"
    /\ pc = "idle"
    /\ pc' = "Sending"
    /\ run' = [run EXCEPT !.pc = "analyzing"]
    /\ UNCHANGED <<attempt, last_exc, raw_text, returned, result, exitCode, cause,
                   errlog, outstanding, events, trim, fmt, parse, cache>>

\* llm_analyze returns the analysis, parsed or as the fallback
AnalyzeReturns ==
    /\ run.pc = "analyzing"
    /\ returned
    /\ run' = [run EXCEPT !.pc = "render"]
    /\ UNCHANGED outside_run

\* llm_analyze raises SystemExit, which leaves main
AnalyzeExits ==
    /\ run.pc = "analyzing"
    /\ pc = "FatalError"
    /\ Exit(exitCode)
    /\ UNCHANGED outside_run

\* terminal_render(analysis, price_data) and the file reports: lines 191-197
terminal_render ==
    /\ run.pc = "render"
    /\ run' = [run EXCEPT !.pc = "done"]
    /\ UNCHANGED outside_run

MainNext ==
    \/ LoadConfig
    \/ FetchPrice
    \/ Submit
    \/ \E name \in FetcherNames : FetcherEnds(name)
    \/ Collect
    \/ Report
    \/ FormatBundle
    \/ CallAnalyze
    \/ Next
    \/ AnalyzeReturns
    \/ AnalyzeExits
    \/ terminal_render

MainSpec == MainInit /\ [][MainNext]_vars

\* C11: a run that fetched at least one data domain is not stopped by a
\* failed fetcher, by trimming or by parse exhaustion: it stops before its
\* result only when the call of the model itself ends in a fatal error.
C11_RunWithDataReachesTheModel ==
    run.pc = "exited" /\ run.fetched # {} => events # <<>>

\* the run has reached format_context or a later step
Assembling(r) == r.pc \in {"format", "analyze", "analyzing", "render", "done"}

\* C23: format_context is called only after each of the four pooled fetchers
\* has returned or failed and its future has been collected; from then on no
\* fetcher is running and no entry of the results map is written.
C23_AssemblyAfterAllFetchers ==
    [][ /\ Assembling(run') =>
            /\ \A name \in FetcherNames : run'.future[name] = "collected"
            /\ run'.completed = <<>>
        /\ Assembling(run) =>
            /\ run'.results = run.results
            /\ run'.future = run.future
            /\ run'.set = run.set ]_vars

\* the assembler is about to run on two fetched results and two failures
C23_Witness ==
    /\ run.pc = "format"
    /\ run.set = {"news", "sec"}
    /\ run.fetched = {"price", "news", "sec"}

\* ------------------------------------- one call of _parse_json_response
\* how deep a text is wrapped
MaxWraps == 2

\* a text put inside a bare fence, a fence tagged json, a fence with another
\* language tag, a list, a string value, or a mapping as the value of a key
Wrap(w, x) ==
    CASE w = "fence"  -> <<Fence>> \o x \o <<Fence>>
      [] w = "json"   -> <<Fence, LangTag, Ws>> \o x \o <<Ws, Fence>>
      [] w = "tag"    -> <<Fence, "text", Ws>> \o x \o <<Fence>>
      [] w = "list"   -> <<"[">> \o x \o <<"]">>
      [] w = "quote"  -> <<"QUOTE">> \o x \o <<"QUOTE">>
      [] w = "member" -> <<"{", "k">> \o x \o <<"}">>

RECURSIVE Nested(_)
\* the texts wrapped up to n times. The innermost texts: nothing, a number,
\* prose, two mappings, a string value that holds a fence marker, a lone fence
\* marker, nesting beyond the recursion limit, a mapping cut short
Nested(n) ==
    IF n = 0
    THEN { <<>>, <<"1">>, <<"text">>, <<"{", "k", "1", "}">>, <<"{", "}">>,
           <<"QUOTE", Fence, "QUOTE">>, <<Fence>>, <<"DEEP">>, <<"{", "k">> }
    ELSE Nested(n - 1)
         \cup { Wrap(w, x) : w \in {"fence", "json", "tag", "list", "quote", "member"},
                             x \in Nested(n - 1) }

\* the argument: a wrapped text, with nothing, whitespace, prose or a mapping
\* before it, and nothing, whitespace, prose, a mapping or a second fenced
\* mapping after it
ParseInit ==
    /\ LlmIdle
    /\ trim = Idle
    /\ fmt = Idle
    /\ run = Idle
    /\ cache = Idle
    /\ \E pre \in { <<>>, <<Ws>>, <<"text", Ws>>, <<"{", "k", "true", "}", Ws>> },
          x \in Nested(MaxWraps),
          post \in { <<>>, <<Ws>>, <<Ws, "text">>, <<Ws, "{", "k", "true", "}">>,
                     <<Ws, Fence, "{", "_parse_error", "true", "}", Fence>> } :
         parse = [pc |-> "call", text |-> pre \o x \o post]

\* _parse_json_response(text) runs to its return statement or to the exception
\* that leaves it
ParseJsonResponse ==
    /\ parse.pc = "call"
    /\ parse' = [pc |-> "done", text |-> parse.text,
                 out |-> _parse_json_response(parse.text)]
    /\ UNCHANGED <<pc, attempt, last_exc, raw_text, returned, result, exitCode, cause,
                   errlog, outstanding, events, trim, fmt, run, cache>>

ParseSpec == ParseInit /\ [][ParseJsonResponse]_vars

\* ------------------------------------------------ claims on the parser
ParseDone == parse.pc = "done"

\* json.loads(m) returns a dict
IsMapping(m) == JsonLoads(m).err = "None" /\ JsonLoads(m).isdict

Returned(m) == [isNone |-> FALSE, dict |-> JsonLoads(m).dict, raised |-> "None"]

\* what a fenced block with a language tag wraps, <<>> when text is no such block
TagFenced(text) ==
    LET t == Strip(text) IN
    IF Len(t) >= 3 /\ t[1] = Fence /\ t[2] \in {LangTag, "text"} /\ t[Len(t)] = Fence
    THEN Strip(SubSeq(t, 3, Len(t) - 1)) ELSE <<>>

\* what follows the preamble, <<>> when text does not open with a preamble
AfterPreamble(text) ==
    LET t == Strip(text)
        b == Find(t, "{")
    IN  IF b > 1 THEN SubSeq(t, b, Len(t)) ELSE <<>>

TopLevelNotMapping(text) == JsonLoads(text).err = "None" /\ ~JsonLoads(text).isdict

NoFence(t) == Find(t, Fence) = 0

C22_NeverRaises == ParseDone => parse.out.raised = "None"

\* the text between the first two fence markers, less the tag json
FirstRegion(text) ==
    LET i == Find(text, Fence)
        j == i + Find(SubSeq(text, i + 1, Len(text)), Fence)
    IN  SubSeq(text, IF i + 1 < j /\ text[i + 1] = LangTag THEN i + 2 ELSE i + 1, j - 1)

HasFencedRegion(text) ==
    Cardinality({ i \in 1..Len(text) : text[i] = Fence }) >= 2

CACHE_TTL_HOURS == 4

HoursPerDay == 24

\* how long the clock runs
MaxHours == 6

\* CACHE_DIR / "{safe_ticker}_{fetcher_name}_{date_str}.json" at the time now;
\* tickers reach the fetchers in upper case (analyze.py line 59)
get_cache_path(ticker, fetcher_name, now) ==
    [safe_ticker |-> [i \in DOMAIN ticker |-> IF ticker[i] = "." THEN "_" ELSE ticker[i]],
     fetcher_name |-> fetcher_name,
     date_str |-> now \div HoursPerDay]

\* an entry that is still valid after exactly ttl_hours
cache_is_valid_atTtl(files, path, ttl_hours, now) ==
    \E f \in files : f.path = path /\ now - f.mtime <= ttl_hours

\* the file exists and was last modified less than ttl_hours ago
cache_is_valid(files, path, ttl_hours, now) ==
    \E f \in files : f.path = path /\ now - f.mtime < ttl_hours

\* an empty cache directory at nine in the morning or in the evening, no call
\* made yet
CacheInit ==
    /\ LlmIdle
    /\ trim = Idle
    /\ fmt = Idle
    /\ run = Idle
    /\ parse = Idle
    /\ \E h \in {9, 21} :
         cache = [now |-> h, start |-> h, files |-> {},
                  fresh |-> [t \in { <<"A", "A", "P", "L">>,
                                     <<"S", "H", "O", "P", ".", "T", "O">> }
                             |-> [at |-> -1, data |-> -1]],
                  last |-> [ticker |-> <<>>, use_cache |-> FALSE, at |-> -1,
                            outcome |-> "none", data |-> -1, since |-> -1,
                            cached |-> -1]]

\* an hour passes
ClockTicks ==
    /\ cache # Idle
    /\ cache.now < cache.start + MaxHours
    /\ cache' = [cache EXCEPT !.now = @ + 1]
    /\ UNCHANGED <<pc, attempt, last_exc, raw_text, returned, result, exitCode, cause,
                   errlog, outstanding, events, trim, fmt, run, parse>>

\* fetch_price(ticker, use_cache): the cached data, or the data of the upstream
\* API written to the cache, or the ValueError of the upstream call. The data
\* fetched at an hour is named by that hour.
fetch_price(ticker, use_cache) ==
    /\ cache # Idle
    /\ LET now        == cache.now
           cache_path == get_cache_path(ticker, "price", now)
           call       == [ticker |-> ticker, use_cache |-> use_cache, at |-> now,
                          since |-> cache.fresh[ticker].at,
                          cached |-> cache.fresh[ticker].data]
       IN  IF use_cache /\ cache_is_valid(cache.files, cache_path, CACHE_TTL_HOURS, now)
           THEN LET f == CHOOSE f \in cache.files : f.path = cache_path IN
                cache' = [cache EXCEPT
                            !.last = call @@ [outcome |-> "hit", data |-> f.data]]
           ELSE \/ cache' = [cache EXCEPT
                               !.files = { f \in @ : f.path # cache_path }
                                         \cup {[path |-> cache_path, mtime |-> now,
                                                data |-> now]},
                               !.fresh[ticker] = [at |-> now, data |-> now],
                               !.last = call @@ [outcome |-> "fetched", data |-> now]]
                \/ cache' = [cache EXCEPT
                               !.last = call @@ [outcome |-> "raised", data |-> -1]]
    /\ UNCHANGED <<pc, attempt, last_exc, raw_text, returned, result, exitCode, cause,
                   errlog, outstanding, events, trim, fmt, run, parse>>

CacheNext ==
    \/ ClockTicks
    \/ \E ticker \in DOMAIN cache.fresh, use_cache \in BOOLEAN :
          fetch_price(ticker, use_cache)

CacheSpec == CacheInit /\ [][CacheNext]_vars

\* ------------------------------------------------- claims on the cache
\* the latest call follows a successful fetch of the same ticker by less than
\* CACHE_TTL_HOURS
WithinTtl(c) == c.since >= 0 /\ c.at - c.since < CACHE_TTL_HOURS

SameDate(c) == c.at \div HoursPerDay = c.since \div HoursPerDay

\* a fetch that went upstream has left its data in the cache file of its date
Written(c) ==
    c.outcome = "fetched"
        => \E f \in cache.files :
              /\ f.path = get_cache_path(c.ticker, "price", c.at)
              /\ f.mtime = c.at
              /\ f.data = c.data

FinalAttempt(e) == e.k = LLM_MAX_RETRIES

RetryableErrors == { i \in 1..Len(events) : events[i].type = "error" /\ Retryable(events[i].exc) }

\* C27: each attempt that ends in a retryable error is followed at once by a
\* sleep of LLM_RETRY_BASE_SECONDS * 2^(attempt - 1), the final attempt
\* included; there are as many sleeps as retryable errors, and the sleep of the
\* final attempt is followed by no request.
C27_SleepAfterEveryRetryableError ==
    /\ Len(SleepWaits) = Cardinality(RetryableErrors)
    /\ \A i \in RetryableErrors :
          /\ i < Len(events)
          /\ events[i + 1].type = "sleep"
          /\ events[i + 1].k = events[i].k
          /\ events[i + 1].wait = LLM_RETRY_BASE_SECONDS * (2 ^ (events[i].k - 1))
    /\ \A i \in 1..Len(events) :
          events[i].type = "sleep" /\ FinalAttempt(events[i]) => i = Len(events)

\* LLM_MAX_RETRIES retryable errors: as many sleeps, the last one the longest
C27_Witness ==
    /\ pc = "FatalError"
    /\ Cardinality(RetryableErrors) = LLM_MAX_RETRIES
    /\ Len(SleepWaits) = LLM_MAX_RETRIES
    /\ events[Len(events)].type = "sleep"
    /\ events[Len(events)].wait = LLM_RETRY_BASE_SECONDS * (2 ^ (LLM_MAX_RETRIES - 1))

\* the value returned carries the parse-failed marker
Marked == \E item \in result : item[1] = "_parse_error" /\ item[2] = <<"true">>

\* C28: the value analyze returns carries the marker _parse_error true exactly
\* when the invocation ended in ParseFailureExhausted.
C28_MarkerOnlyOnFallback ==
    returned => (Marked <=> pc = "ParseFailureExhausted")

\* ------------------------------------ further claims on format_context
\* C29: a call of format_context leaves its arguments as they were: the
\* caller's articles and posts keep their length and their items, also when
\* items were trimmed.
C29_InputsNotModified ==
    [][ fmt.pc = "call" /\ fmt'.pc = "done" =>
            /\ Len(fmt'.news_data.articles) = Len(fmt.news_data.articles)
            /\ Len(fmt'.reddit_data.posts) = Len(fmt.reddit_data.posts)
            /\ fmt'.news_data = fmt.news_data
            /\ fmt'.reddit_data = fmt.reddit_data
            /\ fmt'.price_data = fmt.price_data
            /\ fmt'.sec_data = fmt.sec_data
            /\ fmt'.earnings_data = fmt.earnings_data ]_vars

\* an article and a post were trimmed, and the caller still holds them
C29_Witness ==
    /\ FmtDone
    /\ fmt.out.news_trimmed > 0
    /\ fmt.out.reddit_trimmed > 0
    /\ Len(fmt.news_data.articles) = Len(fmt.out.articles) + fmt.out.news_trimmed
    /\ Len(fmt.reddit_data.posts) = Len(fmt.out.posts) + fmt.out.reddit_trimmed

\* the fixed sections alone are at least as long as _MAX_CHARS
NothingLeft ==
    StrLen(Fixed(fmt.price_data, fmt.sec_data, fmt.earnings_data)) >= _MAX_CHARS

\* C30: when the fixed sections alone reach _MAX_CHARS, every article and every
\* post is removed, the counts of removed items are the lengths of the lists
\* handed over, and the bundle returned holds the six sections around empty
\* news and social sections.
C30_NothingLeftTrimsEverything ==
    FmtDone /\ NothingLeft =>
        /\ fmt.out.remaining_budget <= 0
        /\ fmt.out.articles = <<>>
        /\ fmt.out.posts = <<>>
        /\ fmt.out.news_trimmed = Len(fmt.news_data.articles)
        /\ fmt.out.reddit_trimmed = Len(fmt.reddit_data.posts)
        /\ Bundle = Render(<<>>, Len(fmt.news_data.articles),
                           <<>>, Len(fmt.reddit_data.posts))
        /\ MarkersOf(Bundle) = SectionOrder
        /\ StrLen(Bundle) > _MAX_CHARS

\* the fixed sections take the budget to the last character: an article is
\* removed and there was no post to remove
C30_Witness ==
    /\ FmtDone
    /\ fmt.out.remaining_budget = 0
    /\ Len(fmt.news_data.articles) > 0
    /\ fmt.out.news_trimmed = Len(fmt.news_data.articles)
    /\ fmt.reddit_data.posts = <<>>
    /\ fmt.out.reddit_trimmed = 0

====
